---------------------------- MODULE Spec2Model ----------------------------
(***************************************************************************)
(* A model of latte_functions.py (makeSKF, plotSKF's parsing stage and     *)
(* makeLAMMPSPairwiseTable) and of example/example.py (PorezagSKF and      *)
(* PorezagPair).                                                           *)
(*                                                                         *)
(* Numbers.  Python floats are modelled as exact fixed-point numbers: the  *)
(* integer v stands for the real number v/FP, FP = 10^8 (the literals of   *)
(* example.py have at most 8 decimals).  The Chebyshev coefficients have 7 *)
(* decimals and are kept in units of 1/CU = 10^-7.  Rounding of IEEE       *)
(* doubles is not modelled.  TLC's integers are 32 bits wide, so a         *)
(* Chebyshev series is evaluated only where 2y is an integer               *)
(* (y in {-1,-1/2,0,1/2,1}); the inputs of every specification are drawn   *)
(* so that each in-domain distance is such a point (Exact below).          *)
(*                                                                         *)
(* Text.  A file is absent or holds a sequence of lines; a line is a       *)
(* sequence of one-character strings ending in "\n", as f.readlines()      *)
(* returns it.  A row of the LAMMPS table is kept as its four cells, the   *)
(* three floats as the exact products they are the text of.                *)
(***************************************************************************)
EXTENDS Integers, Sequences, FiniteSets, TLC

VARIABLES
    call,          \* the last call made: [fn |-> name, ...its arguments]
    ret,           \* what that call returned, or the exception it raised
    skfFile,       \* contents of the file at makeSKF's outputFileName
    stdout,        \* the lines printed so far
    tableFile,     \* contents of the file at makeLAMMPSPairwiseTable's outputFileName
    latteFile,     \* contents of the file at getLATTEProperty's fileName
    qDictionary,   \* the dictionary object handed to returnToBox, as it is now
    simulationDictionary,  \* the dictionary object handed to translateCoordinates
    lmpFile        \* contents of the file at simulationDictionaryToLAMMPSData's fileName

vars == <<call, ret, skfFile, stdout, tableFile,
          latteFile, qDictionary, simulationDictionary, lmpFile>>

\* what the table functions leave alone, what the other functions leave alone
atoms == <<latteFile, qDictionary, simulationDictionary, lmpFile>>
tables == <<skfFile, tableFile>>

----------------------------------------------------------------------------
(* Fixed-point numbers and Python values *)

FP == 10 * 10000000
CU == 1 * 10000000

\* a Python int n, a Python float of fixed-point value v, a Python str
PyInt(n) == [t |-> "int", v |-> n]
PyFloat(v) == [t |-> "float", v |-> v]
PyStr(s) == [t |-> "str", s |-> s]

\* the fixed-point value of a Python number
ToFP(x) == IF x.t = "int" THEN x.v * FP ELSE x.v

\* an exact rational n/d (d > 0): the value of an expression that divides
Q(n, d) == [n |-> n, d |-> d]

Abs(x) == IF x < 0 THEN -x ELSE x

----------------------------------------------------------------------------
(* example.py: the Chebyshev coefficient tables, in units of 10^-7 *)

HC_sssigma == <<-4663805, 3528951, -1402985, 50519, 269723, -158810, 36716, 10301, -15546, 8601>>
HC_spsigma == <<3395418, -2250358, 298224, 653476, -605786, 298962, -99609, 20609, 1264, -3381>>
HC_ppsigma == <<2422701, -1315258, -372696, 942352, -673216, 316900, -117293, 33519, -4838, -906>>
HC_pppi == <<-3793837, 3204470, -1956799, 883986, -300733, 74465, -8563, -4453, 3842, -1855>>
SC_sssigma == <<4728644, -3661623, 1594782, -204934, -170732, 96695, -7135, -13826, 7849, -2005>>
SC_spsigma == <<-3662838, 2490285, -431248, -584391, 492775, -150447, -10758, 27734, -11214, 2303>>
SC_ppsigma == <<-1359608, 226235, 1406440, -1573794, 753818, -108677, -75444, 51533, -13747, 751>>
SC_pppi == <<3715732, -3070867, 1707304, -581555, 61645, 51460, -32776, 9119, -1265, -2270>>
VC_rep == <<22681036, -19157174, 11677745, -5171036, 1529242, -219294, -2, -1, -5, 9>>

\* spatial cutoffs of the two parameterizations, as fixed-point lengths
SKF_aa == 1 * FP
SKF_b == 7 * FP
Pair_aa == 1 * FP
Pair_b == 41 * (FP \div 10)

----------------------------------------------------------------------------
(* example.py: the domain gate and the map of r onto [-1,1] *)

\* (r>=aa and r<=b)
InDomainStrict(r, aa, b) == r > aa /\ r < b
InDomainOr(r, aa, b) == r >= aa \/ r <= b
InDomain(r, aa, b) == r >= aa /\ r <= b

\* 2y for y=(2*r-b-aa)/(b-aa); exact when Exact(r, aa, b)
TwoY(r, aa, b) == (2 * (2 * r - b - aa)) \div (b - aa)
Exact(r, aa, b) == (2 * (2 * r - b - aa)) % (b - aa) = 0

\* the distances a specification may hand to a function with cutoffs aa, b
Evaluable(r, aa, b) == InDomain(r, aa, b) => Exact(r, aa, b)

----------------------------------------------------------------------------
(* numpy.polynomial.chebyshev.chebval(y, c): Clenshaw's recursion           *)
(*     x2 = 2*x; c0 = c[-2]; c1 = c[-1]                                     *)
(*     for i in range(3, len(c) + 1):                                       *)
(*         tmp = c0; c0 = c[-i] - c1; c1 = tmp + c1*x2                      *)
(*     return c0 + c1*x                                                     *)
(* c is in units of 1/CU; the result is twice the value, in units of 1/CU.   *)

RECURSIVE Clenshaw(_, _, _, _, _)
Clenshaw(x2, c, i, c0, c1) ==
    IF i > Len(c) THEN <<c0, c1>>
    ELSE Clenshaw(x2, c, i + 1, c[Len(c) - i + 1] - c1, c0 + c1 * x2)

chebvalWrong(x2, c) ==
    LET p == Clenshaw(x2, c, 3, c[Len(c)], c[Len(c) - 1])
    IN  2 * p[1] + p[2] * x2
chebval(x2, c) ==
    LET p == Clenshaw(x2, c, 3, c[Len(c) - 1], c[Len(c)])
    IN  2 * p[1] + p[2] * x2

\* chebval(y,C) followed by -= C[0]/2, as a float: twice the value in units
\* of 1/CU is chebval - C[0], and one half of 1/CU is FP \div (2 * CU) of 1/FP
Series(x2, c) == PyFloat((chebval(x2, c) - c[1]) * (FP \div (2 * CU)))

(* scipy.special.eval_chebyu(n, y) for an integer n >= -1: U_{-1}=0, U_0=1, *)
(* U_k = 2y*U_{k-1} - U_{k-2}, computed by iteration.                       *)
RECURSIVE ChebyU(_, _, _, _, _)
ChebyU(n, x2, k, uk, ukm1) ==
    IF k = n THEN uk ELSE ChebyU(n, x2, k + 1, x2 * uk - ukm1, uk)

eval_chebyu(n, x2) == IF n = -1 THEN 0 ELSE ChebyU(n, x2, 0, 1, 0)

----------------------------------------------------------------------------
(* example.py: PorezagSKF(r) *)

PorezagSKFSwapped(r) ==
    LET in == InDomain(r, SKF_aa, SKF_b)
        x2 == TwoY(r, SKF_aa, SKF_b)
        El(c) == IF in THEN Series(x2, c) ELSE PyInt(0)
    IN  [Hss0 |-> El(HC_sssigma), Hsp0 |-> El(HC_spsigma), Hsd0 |-> PyInt(0),
         Hpp0 |-> El(HC_ppsigma), Hpp1 |-> El(HC_pppi),
         Hpd0 |-> PyInt(0), Hpd1 |-> PyInt(0),
         Hdd0 |-> PyInt(0), Hdd1 |-> PyInt(0), Hdd2 |-> PyInt(0),
         Sss0 |-> El(SC_sssigma), Ssp0 |-> El(SC_spsigma), Ssd0 |-> PyInt(0),
         Spp0 |-> El(SC_pppi), Spp1 |-> El(SC_ppsigma),
         Spd0 |-> PyInt(0), Spd1 |-> PyInt(0),
         Sdd0 |-> PyInt(0), Sdd1 |-> PyInt(0), Sdd2 |-> PyInt(0)]

PorezagSKF(r) ==
    LET in == InDomain(r, SKF_aa, SKF_b)
        x2 == TwoY(r, SKF_aa, SKF_b)
        \* the matrix elements start as the int 0 and become floats in the domain
        El(c) == IF in THEN Series(x2, c) ELSE PyInt(0)
    IN  [Hss0 |-> El(HC_sssigma), Hsp0 |-> El(HC_spsigma), Hsd0 |-> PyInt(0),
         Hpp0 |-> El(HC_ppsigma), Hpp1 |-> El(HC_pppi),
         Hpd0 |-> PyInt(0), Hpd1 |-> PyInt(0),
         Hdd0 |-> PyInt(0), Hdd1 |-> PyInt(0), Hdd2 |-> PyInt(0),
         Sss0 |-> El(SC_sssigma), Ssp0 |-> El(SC_spsigma), Ssd0 |-> PyInt(0),
         Spp0 |-> El(SC_ppsigma), Spp1 |-> El(SC_pppi),
         Spd0 |-> PyInt(0), Spd1 |-> PyInt(0),
         Sdd0 |-> PyInt(0), Sdd1 |-> PyInt(0), Sdd2 |-> PyInt(0)]

----------------------------------------------------------------------------
(* example.py: PorezagPair(r) *)

\* dy_by_dr=2/(b-aa): b-aa is a fixed-point length, so the value is
\* 2*FP/(b-aa) = 2*CU/((b-aa)/(FP/CU))
dy_by_dr(aa, b) == Q(2 * CU, (b - aa) \div (FP \div CU))

(* for m in range(1,11): force+=-VC_rep[m-1]*(m-1)*eval_chebyu(m-2,y)*dy_by_dr *)
(* acc is the sum so far of -VC_rep[m-1]*(m-1)*U_{m-2}(y), in units of 1/CU. *)
RECURSIVE ForceLoopWrong(_, _, _)
ForceLoopWrong(x2, m, acc) ==
    IF m > 10 THEN acc
    ELSE ForceLoopWrong(x2, m + 1, acc - VC_rep[m] * (m - 1) * eval_chebyu(m - 1, x2))

RECURSIVE ForceLoop(_, _, _)
ForceLoop(x2, m, acc) ==
    IF m > 10 THEN acc
    ELSE ForceLoop(x2, m + 1, acc - VC_rep[m] * (m - 1) * eval_chebyu(m - 2, x2))

\* the product (s/CU)*(q.n/q.d) of a number in units of 1/CU and a rational
TimesQ(s, q) == Q(s * (q.n \div CU), q.d)

PorezagPair(r) ==
    IF InDomain(r, Pair_aa, Pair_b)
    THEN LET x2 == TwoY(r, Pair_aa, Pair_b)
         IN  [energy |-> Q((chebval(x2, VC_rep) - VC_rep[1]) * (FP \div (2 * CU)), FP),
              force |-> TimesQ(ForceLoop(x2, 1, 0), dy_by_dr(Pair_aa, Pair_b))]
    ELSE [energy |-> Q(0, 1), force |-> Q(0, 1)]

----------------------------------------------------------------------------
(* Python text: str(), float(), int(), split(), join(), replace()           *)
(* A string is a sequence of one-character strings.                         *)

FPDigits == 8
DigitChars == <<"0", "1", "2", "3", "4", "5", "6", "7", "8", "9">>
DigitSet == {DigitChars[i] : i \in 1..10}
DigitVal(ch) == (CHOOSE i \in 1..10 : DigitChars[i] = ch) - 1
Whitespace == {" ", "\n", "\t"}

\* the decimal digits of n >= 0, without leading zeros
RECURSIVE Digits(_)
Digits(n) ==
    IF n < 10 THEN <<DigitChars[n + 1]>>
    ELSE Append(Digits(n \div 10), DigitChars[(n % 10) + 1])

\* the last w decimal digits of n >= 0, zero-padded
RECURSIVE PadDigits(_, _)
PadDigits(n, w) ==
    IF w = 0 THEN <<>>
    ELSE Append(PadDigits(n \div 10, w - 1), DigitChars[(n % 10) + 1])

RECURSIVE StripZeros(_)
StripZeros(s) ==
    IF s # <<>> /\ s[Len(s)] = "0" THEN StripZeros(SubSeq(s, 1, Len(s) - 1)) ELSE s

\* str(n) of an int
StrInt(n) == IF n < 0 THEN <<"-">> \o Digits(0 - n) ELSE Digits(n)

(* str(x) of a float (repr: the shortest text that reads back as x): fixed  *)
(* notation with at least one decimal, exponent notation below 1e-4.        *)
StrFloat(v) ==
    LET a == Abs(v)
        sign == IF v < 0 THEN <<"-">> ELSE <<>>
        frac == StripZeros(PadDigits(a % FP, FPDigits))
        d == Digits(a)
        m == StripZeros(d)
    IN  IF a # 0 /\ a < FP \div 10000
        THEN sign \o <<m[1]>> \o (IF Len(m) > 1 THEN <<".">> \o Tail(m) ELSE <<>>)
                  \o <<"e", "-">> \o PadDigits(FPDigits + 1 - Len(d), 2)
        ELSE sign \o Digits(a \div FP) \o <<".">> \o (IF frac = <<>> THEN <<"0">> ELSE frac)

\* str(elem)
Str(x) ==
    CASE x.t = "int" -> StrInt(x.v)
      [] x.t = "float" -> StrFloat(x.v)
      [] x.t = "str" -> x.s

RECURSIVE Pow10(_)
Pow10(k) == IF k = 0 THEN 1 ELSE 10 * Pow10(k - 1)

RECURSIVE DigitsVal(_, _, _)
DigitsVal(s, i, acc) ==
    IF i > Len(s) THEN acc ELSE DigitsVal(s, i + 1, 10 * acc + DigitVal(s[i]))

AllDigits(s) == \A i \in 1..Len(s) : s[i] \in DigitSet
Positions(s, chs) == {i \in 1..Len(s) : s[i] \in chs}
Min(S) == CHOOSE x \in S : \A y \in S : x <= y
Max(S) == CHOOSE x \in S : \A y \in S : x >= y

(* float(s): [ok |-> TRUE, v |-> fixed-point value], or [ok |-> FALSE] for  *)
(* ValueError.  Accepted: [+-] digits [. digits] [e [+-] digits] with a     *)
(* digit in the mantissa.  Text with more decimals than FP holds is cut.    *)
Float(s) ==
    LET neg == s # <<>> /\ s[1] = "-"
        body == IF s # <<>> /\ s[1] \in {"-", "+"} THEN Tail(s) ELSE s
        es == Positions(body, {"e", "E"})
        mant == IF es = {} THEN body ELSE SubSeq(body, 1, Min(es) - 1)
        expo == IF es = {} THEN <<>> ELSE SubSeq(body, Min(es) + 1, Len(body))
        eneg == expo # <<>> /\ expo[1] = "-"
        edig == IF expo # <<>> /\ expo[1] \in {"-", "+"} THEN Tail(expo) ELSE expo
        dots == Positions(mant, {"."})
        ip == IF dots = {} THEN mant ELSE SubSeq(mant, 1, Min(dots) - 1)
        fr == IF dots = {} THEN <<>> ELSE SubSeq(mant, Min(dots) + 1, Len(mant))
        wellFormed ==
            /\ Cardinality(dots) <= 1
            /\ AllDigits(ip) /\ AllDigits(fr)
            /\ Len(ip) + Len(fr) >= 1
            /\ es # {} => (edig # <<>> /\ AllDigits(edig))
        e == IF es = {} THEN 0
             ELSE IF eneg THEN 0 - DigitsVal(edig, 1, 0) ELSE DigitsVal(edig, 1, 0)
        shift == FPDigits + e - Len(fr)
        mag == DigitsVal(ip \o fr, 1, 0)
        a == IF shift >= 0 THEN mag * Pow10(shift) ELSE mag \div Pow10(0 - shift)
    IN  IF wellFormed THEN [ok |-> TRUE, v |-> IF neg THEN 0 - a ELSE a]
        ELSE [ok |-> FALSE]

\* int(x) of a float: truncation toward zero
IntOfFloat(v) == IF v >= 0 THEN v \div FP ELSE 0 - ((0 - v) \div FP)

\* the elements of a finite set of integers in increasing order
Sorted(S) == [k \in 1..Cardinality(S) |->
                CHOOSE i \in S : Cardinality({j \in S : j < i}) = k - 1]

\* s.split(): the maximal runs of non-whitespace characters
Split(s) ==
    LET starts == Sorted({i \in 1..Len(s) :
                            s[i] \notin Whitespace /\ (i = 1 \/ s[i - 1] \in Whitespace)})
        ends == Sorted({i \in 1..Len(s) :
                          s[i] \notin Whitespace /\ (i = Len(s) \/ s[i + 1] \in Whitespace)})
    IN  [k \in 1..Len(starts) |-> SubSeq(s, starts[k], ends[k])]

\* s.split(ch): the pieces between occurrences of ch, empty ones included
SplitOn(s, ch) ==
    LET cuts == Sorted({i \in 1..Len(s) : s[i] = ch})
        from(k) == IF k = 1 THEN 1 ELSE cuts[k - 1] + 1
        to(k) == IF k = Len(cuts) + 1 THEN Len(s) ELSE cuts[k] - 1
    IN  [k \in 1..(Len(cuts) + 1) |-> SubSeq(s, from(k), to(k))]

\* sep.join(parts)
RECURSIVE JoinFrom(_, _, _)
JoinFrom(sep, parts, i) ==
    IF i > Len(parts) THEN <<>>
    ELSE IF i = Len(parts) THEN parts[i]
         ELSE parts[i] \o sep \o JoinFrom(sep, parts, i + 1)

Join(sep, parts) == JoinFrom(sep, parts, 1)

\* s.replace(ch,'')
RemoveChar(s, ch) == SelectSeq(s, LAMBDA c : c # ch)

\* ch in s, for a character and a string or for an element and a list
Contains(s, x) == \E i \in 1..Len(s) : s[i] = x

----------------------------------------------------------------------------
(* latte_functions.py: makeSKF(outputFileName,parameterizationDictionary)   *)

\* pD["elementFunction"](r)
ElementFunction(pD, r) ==
    CASE pD.elementFunction = "PorezagSKF" -> PorezagSKF(r)

\* dVec=[0]*10
dVec == [i \in 1..10 |-> PyInt(0)]

\* gridPointsVec=pD["gridDist"]*np.array(range(pD["nGridPoints"])), fixed-point
gridPointsVec(pD) == [i \in 1..pD.nGridPoints.v |-> ToFP(pD.gridDist) * (i - 1)]

\* the lines appended after line 1 for the grid and atomic information
HeaderLines(pD) ==
    IF pD.type = "homonuclear"
    THEN <<pD.EVec \o <<pD.SPE>> \o pD.UVec \o pD.fVec,
           <<pD.mass>> \o pD.cVec \o <<pD.domainTB[2]>> \o dVec>>
    ELSE IF pD.type = "heteronuclear"
         THEN <<(<<PyInt(12345)>> \o pD.cVec \o <<pD.domainTB[2]>> \o dVec)>>
         ELSE <<>>

\* what the else branch prints
TypeDiagnostic(pD) ==
    IF pD.type \in {"homonuclear", "heteronuclear"} THEN <<>>
    ELSE <<"ERROR: parameterization type must be \"heteronuclear\"",
           "       or \"homonuclear\"">>

\* the row of the integral table for distance r
TableRowShifted(pD, r) ==
    IF r <= ToFP(pD.domainTB[1])
    THEN [i \in 1..20 |-> PyFloat(FP)]
    ELSE LET eD == ElementFunction(pD, r)
         IN  <<eD.Hdd0, eD.Hdd1, eD.Hdd2, eD.Hpd0, eD.Hpd1,
               eD.Hpp0, eD.Hpp1, eD.Hsd0, eD.Hsp0, eD.Hss0,
               eD.Sdd0, eD.Sdd1, eD.Sdd2, eD.Spd0, eD.Spd1,
               eD.Spp0, eD.Spp1, eD.Ssd0, eD.Ssp0, eD.Sss0>>

TableRow(pD, r) ==
    IF r < ToFP(pD.domainTB[1])
    THEN [i \in 1..20 |-> PyFloat(FP)]
    ELSE LET eD == ElementFunction(pD, r)
         IN  <<eD.Hdd0, eD.Hdd1, eD.Hdd2, eD.Hpd0, eD.Hpd1,
               eD.Hpp0, eD.Hpp1, eD.Hsd0, eD.Hsp0, eD.Hss0,
               eD.Sdd0, eD.Sdd1, eD.Sdd2, eD.Spd0, eD.Spd1,
               eD.Spp0, eD.Spp1, eD.Ssd0, eD.Ssp0, eD.Sss0>>

\* for r in gridPointsVec: ... lineListList.append(tempLine)
IntegralTableShort(pD) ==
    [i \in 1..(Len(gridPointsVec(pD)) - 1) |-> TableRow(pD, gridPointsVec(pD)[i])]

IntegralTable(pD) ==
    [i \in 1..Len(gridPointsVec(pD)) |-> TableRow(pD, gridPointsVec(pD)[i])]

\* the Spline section
SplineLinesNoExp(pD) ==
    <<(<<PyStr(<<"S", "p", "l", "i", "n", "e">>)>>),
      <<PyInt(1), pD.domainTB[2]>>,
      <<pD.domainTB[1], pD.domainTB[2],
        PyInt(0), PyInt(0), PyInt(0), PyInt(0), PyInt(0), PyInt(0)>> >>

SplineLines(pD) ==
    <<(<<PyStr(<<"S", "p", "l", "i", "n", "e">>)>>),
      <<PyInt(1), pD.domainTB[2]>>,
      <<PyInt(0), PyInt(0), PyInt(-1)>>,
      <<pD.domainTB[1], pD.domainTB[2],
        PyInt(0), PyInt(0), PyInt(0), PyInt(0), PyInt(0), PyInt(0)>> >>

lineListList(pD) ==
    <<(<<pD.gridDist, pD.nGridPoints>>)>> \o HeaderLines(pD)
        \o IntegralTable(pD) \o SplineLines(pD)

\* fileObject.write(' '.join(lineListString)+'\n')
WriteLine(lineList) ==
    Join(<<" ">>, [j \in 1..Len(lineList) |-> Str(lineList[j])]) \o <<"\n">>

WriteLines(lll) == [i \in 1..Len(lll) |-> WriteLine(lll[i])]

----------------------------------------------------------------------------
(* latte_functions.py: plotSKF(fileName,domain), up to the plots            *)

Raised(exception) == [raised |-> exception]
SplineToken == <<"S", "p", "l", "i", "n", "e">>

\* a file that does not exist, a file holding the given lines
Absent == [exists |-> FALSE, lines |-> <<>>]
File(lines) == [exists |-> TRUE, lines |-> lines]

(* the replacement of one entry of a line that holds '*':                   *)
(*     entrySplit=entry.split('*'); num=float(entrySplit[1])                *)
(*     timesRep=int(float(entrySplit[0]))                                   *)
(*     expandedEntries=' '.join([str(num)]*timesRep)                        *)
ExpandEntry(entry) ==
    IF ~Contains(entry, "*") THEN [ok |-> TRUE, s |-> entry]
    ELSE LET entrySplit == SplitOn(entry, "*")
             num == Float(entrySplit[2])
             rep == Float(entrySplit[1])
         IN  IF ~num.ok \/ ~rep.ok THEN [ok |-> FALSE]
             ELSE [ok |-> TRUE,
                   s |-> Join(<<" ">>, [k \in 1..IntOfFloat(rep.v) |-> StrFloat(num.v)])]

\* the line appended to lines for one line of linesAsterisks
ExpandLine(line) ==
    IF ~Contains(line, "*") THEN [ok |-> TRUE, s |-> line]
    ELSE LET lineSplit == Split(line)
             ex == [i \in 1..Len(lineSplit) |-> ExpandEntry(lineSplit[i])]
         IN  IF \E i \in 1..Len(ex) : ~ex[i].ok THEN [ok |-> FALSE]
             ELSE [ok |-> TRUE, s |-> Join(<<" ">>, [i \in 1..Len(ex) |-> ex[i].s])]

\* linesAsterisks=[line.replace(',','') for line in linesAsterisksCommas]
CleanCommas(line) == RemoveChar(line, ",")

HIntegralLabels(extended) ==
    IF extended
    THEN <<"Hff0", "Hff1", "Hff2", "Hff3", "Hdf0", "Hdf1", "Hdf2", "Hdd0", "Hdd1", "Hdd2",
           "Hpf0", "Hpf1", "Hpd0", "Hpd1", "Hpp0", "Hpp1", "Hsf0", "Hsd0", "Hsp0", "Hss0">>
    ELSE <<"Hdd0", "Hdd1", "Hdd2", "Hpd0", "Hpd1", "Hpp0", "Hpp1", "Hsd0", "Hsp0", "Hss0">>

SIntegralLabels(extended) ==
    IF extended
    THEN <<"Sff0", "Sff1", "Sff2", "Sff3", "Sdf0", "Sdf1", "Sdf2", "Sdd0", "Sdd1", "Sdd2",
           "Spf0", "Spf1", "Spd0", "Spd1", "Spp0", "Spp1", "Ssf0", "Ssd0", "Ssp0", "Sss0">>
    ELSE <<"Sdd0", "Sdd1", "Sdd2", "Spd0", "Spd1", "Spp0", "Spp1", "Ssd0", "Ssp0", "Sss0">>

integralTableLineLength(extended) == IF extended THEN 40 ELSE 20

(* the labels of the columns that are plotted, in order: those with          *)
(* sum(abs(integralValues[int(numPoints/3):]))>0.0, and a sum of absolute    *)
(* values is positive exactly when one of them is.                           *)
Plotted(table, labels) ==
    LET cols == IF table = <<>> THEN 0 ELSE Len(table[1])
        shown(j) == \E k \in ((Len(table) \div 3) + 1)..Len(table) : Abs(table[k][j]) > 0
    IN  SelectSeq([j \in 1..cols |-> IF shown(j) THEN labels[j] ELSE ""], LAMBDA l : l # "")

(* The element of a one-element set.  Only({e(x) : x \in {v}}) is e of the  *)
(* value of v, with v evaluated once however often e refers to x: a local   *)
(* of plotSKF is assigned once and read many times.                         *)
Only(S) == CHOOSE y \in S : TRUE

\* HTable=integralTable[:,0:len/2], STable=integralTable[:,len/2:len] and the plots
Tables(integralTable, extended, gridDist) ==
    LET width == Len(integralTable[1])
        half == integralTableLineLength(extended) \div 2
    IN  Only({[raised |-> "none", gridDist |-> gridDist,
               HTable |-> T.H, STable |-> T.S,
               HPlotted |-> Plotted(T.H, HIntegralLabels(extended)),
               SPlotted |-> Plotted(T.S, SIntegralLabels(extended))] :
              T \in {[H |-> [k \in 1..Len(integralTable) |->
                               SubSeq(integralTable[k], 1,
                                      IF width < half THEN width ELSE half)],
                      S |-> [k \in 1..Len(integralTable) |->
                               SubSeq(integralTable[k], half + 1, width)]]}})

\* integralTable=np.array(integralTableLines).astype(float)
AsFloatArray(parsed, extended, gridDist) ==
    IF \E k \in 1..Len(parsed) : \E j \in 1..Len(parsed[k]) : ~parsed[k][j].ok
    THEN Raised("ValueError")
    ELSE IF Len(parsed) = 0 THEN Raised("IndexError")
    ELSE IF \E k \in 1..Len(parsed) : Len(parsed[k]) # Len(parsed[1])
    THEN Raised("ValueError")
    ELSE Only({Tables(integralTable, extended, gridDist) :
                 integralTable \in {[k \in 1..Len(parsed) |->
                                       [j \in 1..Len(parsed[k]) |-> parsed[k][j].v]]}})

\* [[float(entry) for entry in splitLine] for splitLine in integralTableLines]
FloatEntries(integralTableLines, extended, gridDist) ==
    Only({AsFloatArray(parsed, extended, gridDist) :
            parsed \in {[k \in 1..Len(integralTableLines) |->
                           [j \in 1..Len(integralTableLines[k]) |->
                              Float(integralTableLines[k][j])]]}})

(* the integral table plucked from linesSplit; indices are 0-based as in    *)
(* the code, so linesSplit[firstLineIndex:afterLineIndex] is the lines      *)
(* firstLineIndex+1 .. afterLineIndex of the 1-based sequence.              *)
PluckTable(linesSplit, extended, gridDist) ==
    LET len == integralTableLineLength(extended)
        hits == {i \in 1..Len(linesSplit) : Len(linesSplit[i]) = len}
    IN  IF hits = {} THEN Raised("IndexError")
        ELSE
    LET firstLineIndex == (Min(hits) - 1) + (IF len = 20 THEN 1 ELSE 0)
        splines == {i \in 1..Len(linesSplit) : Contains(linesSplit[i], SplineToken)}
        afterLineIndex == IF splines = {} THEN 0 ELSE Max(splines) - 1
    IN  Only({FloatEntries(integralTableLines, extended, gridDist) :
                integralTableLines \in
                    {SubSeq(linesSplit, firstLineIndex + 1, afterLineIndex)}})

\* gridDist=float(linesSplit[gridLine][0]) and the table, from linesSplit
FromSplit(linesSplit, extended, gridLine) ==
    IF linesSplit[gridLine] = <<>> THEN Raised("IndexError")
    ELSE IF ~Float(linesSplit[gridLine][1]).ok THEN Raised("ValueError")
    ELSE PluckTable(linesSplit, extended, Float(linesSplit[gridLine][1]).v)

\* the format and linesSplit, from the expanded lines
FromLines(lines) ==
    IF Len(lines) = 0 THEN Raised("IndexError")
    ELSE
    LET extended == Contains(lines[1], "@")
        gridLine == IF extended THEN 2 ELSE 1
    IN  IF Len(lines) < gridLine THEN Raised("IndexError")
        ELSE Only({FromSplit(linesSplit, extended, gridLine) :
                     linesSplit \in {[i \in 1..Len(lines) |-> Split(lines[i])]}})

\* the expanded lines, or the ValueError of a float() in the expansion
FromExpanded(ex) ==
    IF \E i \in 1..Len(ex) : ~ex[i].ok THEN Raised("ValueError")
    ELSE FromLines([i \in 1..Len(ex) |-> ex[i].s])

\* plotSKF from open(fileName,'r') to the plots
ParseSKF(f) ==
    IF ~f.exists THEN Raised("FileNotFoundError")
    ELSE Only({FromExpanded(ex) :
                 ex \in {[i \in 1..Len(f.lines) |-> ExpandLine(CleanCommas(f.lines[i]))]}})

----------------------------------------------------------------------------
(* The state before any call: no file written, nothing printed *)

None == [t |-> "None"]

Init ==
    /\ call = [fn |-> "none"]
    /\ ret = None
    /\ skfFile = Absent
    /\ stdout = <<>>
    /\ tableFile = Absent
    /\ latteFile = Absent
    /\ qDictionary = None
    /\ simulationDictionary = None
    /\ lmpFile = Absent

----------------------------------------------------------------------------
(* Calls of the element and pair functions on their own *)

\* distances are drawn from a grid of 1/40 Bohr radius, negative ones included
RStep == FP \div 40
RMaxSteps == 330
RNegSteps == 10
RGrid == {k * RStep : k \in (0 - RNegSteps)..RMaxSteps}

CallPorezagSKF(r) ==
    /\ Evaluable(r, SKF_aa, SKF_b)
    /\ call' = [fn |-> "PorezagSKF", r |-> r]
    /\ ret' = PorezagSKF(r)
    /\ UNCHANGED <<skfFile, stdout, tableFile>>
    /\ UNCHANGED atoms

CallPorezagPair(r) ==
    /\ Evaluable(r, Pair_aa, Pair_b)
    /\ call' = [fn |-> "PorezagPair", r |-> r]
    /\ ret' = PorezagPair(r)
    /\ UNCHANGED <<skfFile, stdout, tableFile>>
    /\ UNCHANGED atoms

NextElem ==
    \/ \E r \in RGrid : CallPorezagSKF(r)
    \/ \E r \in RGrid : CallPorezagPair(r)

SpecElem == Init /\ [][NextElem]_vars

----------------------------------------------------------------------------
(* Claims about PorezagSKF and PorezagPair, checked under SpecElem *)

ModelledSlots == {"Hss0", "Hsp0", "Hpp0", "Hpp1", "Sss0", "Ssp0", "Spp0", "Spp1"}
UnmodelledSlots == {"Hsd0", "Hpd0", "Hpd1", "Hdd0", "Hdd1", "Hdd2",
                    "Ssd0", "Spd0", "Spd1", "Sdd0", "Sdd1", "Sdd2"}

\* the coefficient table the claim pairs with each modelled slot
SlotCoefficients(k) ==
    CASE k = "Hss0" -> HC_sssigma [] k = "Hsp0" -> HC_spsigma
      [] k = "Hpp0" -> HC_ppsigma [] k = "Hpp1" -> HC_pppi
      [] k = "Sss0" -> SC_sssigma [] k = "Ssp0" -> SC_spsigma
      [] k = "Spp0" -> SC_ppsigma [] k = "Spp1" -> SC_pppi

\* C4: outside [1,7] PorezagSKF returns 0 in all eight modelled slots, outside
\* [1.0,4.1] PorezagPair returns energy 0 and force 0, and the twelve
\* unmodelled slots of PorezagSKF are 0 at every distance.
C4_OutOfDomainZero ==
    /\ call.fn = "PorezagSKF" =>
          /\ (call.r < 1 * FP \/ call.r > 7 * FP) =>
                \A k \in ModelledSlots : ret[k].v = 0
          /\ \A k \in UnmodelledSlots : ret[k].v = 0
    /\ (call.fn = "PorezagPair" /\ (call.r < 1 * FP \/ call.r > 41 * (FP \div 10))) =>
          ret.energy.n = 0 /\ ret.force.n = 0

C4_Witness ==
    /\ call.fn = "PorezagPair"
    /\ call.r > 41 * (FP \div 10)
    /\ call.r < 7 * FP
    /\ ret.energy.n = 0

\* twice the Chebyshev polynomial of the first kind, 2*T_k(x2/2), by the
\* textbook recurrence T_0=1, T_1=y, T_k=2y*T_{k-1}-T_{k-2}
RECURSIVE TwoT(_, _)
TwoT(k, x2) ==
    IF k = 0 THEN 2 ELSE IF k = 1 THEN x2 ELSE x2 * TwoT(k - 1, x2) - TwoT(k - 2, x2)

RECURSIVE SumT(_, _, _)
SumT(c, x2, k) == IF k = 0 THEN 0 ELSE c[k + 1] * TwoT(k, x2) + SumT(c, x2, k - 1)

\* C5: for r in [1,7], endpoints included, y = (2r-b-a)/(b-a) lies in [-1,1]
\* with a -> -1 and b -> 1, and each modelled slot holds
\* c[0]/2 + sum_{k=1..9} c[k]*T_k(y), a float and not the int 0 sentinel.
C5_SeriesInDomain ==
    (call.fn = "PorezagSKF" /\ call.r >= 1 * FP /\ call.r <= 7 * FP) =>
        \E x2 \in -2..2 :
            /\ x2 * (6 * FP) = 2 * (2 * call.r - 7 * FP - 1 * FP)
            /\ call.r = 1 * FP => x2 = -2
            /\ call.r = 7 * FP => x2 = 2
            /\ \A k \in ModelledSlots :
                  /\ ret[k].t = "float"
                  \* twice the value in units of 1/CU is c[0] + sum c[k]*2T_k
                  /\ ret[k].v =
                        (SlotCoefficients(k)[1] + SumT(SlotCoefficients(k), x2, 9))
                            * (FP \div (2 * CU))

C5_Witness ==
    /\ call.fn = "PorezagSKF"
    /\ call.r = 7 * FP
    /\ ret.Hss0.t = "float"
    /\ ret.Hss0.v # 0

\* the Chebyshev polynomial of the second kind U_n(x2/2): U_{-1}=0, U_0=1,
\* U_n = 2y*U_{n-1} - U_{n-2}
RECURSIVE ClaimU(_, _)
ClaimU(n, x2) ==
    IF n = -1 THEN 0 ELSE IF n = 0 THEN 1
    ELSE x2 * ClaimU(n - 1, x2) - ClaimU(n - 2, x2)

\* sum_{k=1..K} c[k]*k*U_{k-1}(y), in units of 10^-7
RECURSIVE SumU(_, _, _)
SumU(c, x2, k) ==
    IF k = 0 THEN 0 ELSE c[k + 1] * k * ClaimU(k - 1, x2) + SumU(c, x2, k - 1)

\* C6: for r in [1.0,4.1] the force is -(dvalue/dy)*(dy/dr) with dy/dr = 2/(b-a)
\* and dvalue/dy = sum_{k=1..9} c[k]*k*U_{k-1}(y).
C6_ForceIsDerivative ==
    (call.fn = "PorezagPair" /\ call.r >= 1 * FP /\ call.r <= 41 * (FP \div 10)) =>
        \E x2 \in -2..2 :
            /\ x2 * (31 * (FP \div 10)) = 2 * (2 * call.r - 41 * (FP \div 10) - 1 * FP)
            \* -(S/CU) * 2/(3.1) = (-2*S) / (31*CU/10)
            /\ ret.force.d = 31 * (CU \div 10)
            /\ ret.force.n = (0 - SumU(VC_rep, x2, 9)) * 2

C6_Witness ==
    /\ call.fn = "PorezagPair"
    /\ call.r = 133 * (FP \div 40)
    /\ ret.force.n # 0

----------------------------------------------------------------------------
(* Writing an SKF file and reading it back *)

\* the parameterizations handed to makeSKF: PorezagDictionary of example.py
\* with the grid, the domain and the type varied
MaxGridPoints == 4
\* rows 0..50 of the 500 of example.py: the rows up to the first inside domainTB
ExampleRows == 51
GridDists == {FP \div 50, FP \div 2, 1 * FP, 5 * (FP \div 2), 4 * FP}
DomainTBs == {<<PyInt(1), PyInt(7)>>, <<PyInt(4), PyInt(7)>>,
              <<PyFloat(FP \div 2), PyInt(7)>>, <<PyFloat(5 * (FP \div 2)), PyInt(7)>>}
Types == {"homonuclear", "heteronuclear", "Homonuclear"}

PorezagDictionary(gridDist, n, type, domainTB) ==
    [mass |-> PyFloat(1201000000),
     gridDist |-> PyFloat(gridDist),
     nGridPoints |-> PyInt(n),
     type |-> type,
     elementFunction |-> "PorezagSKF",
     domainTB |-> domainTB,
     EVec |-> <<PyInt(0), PyFloat(-19435511), PyFloat(-50489172)>>,
     SPE |-> PyFloat(-4547908),
     UVec |-> <<PyFloat(36470000), PyFloat(36470000), PyFloat(36470000)>>,
     fVec |-> <<PyInt(0), PyInt(2), PyInt(2)>>,
     cVec |-> [i \in 1..8 |-> PyInt(0)]]

\* every grid point the element function is called at is one it is exact at
GridEvaluable(pD) ==
    \A i \in 1..pD.nGridPoints.v :
        LET r == ToFP(pD.gridDist) * (i - 1)
        IN  r >= ToFP(pD.domainTB[1]) => Evaluable(r, SKF_aa, SKF_b)

\* the numbers of grid points tried with grid distance g
GridCounts(g) ==
    (0..MaxGridPoints) \cup (IF g = FP \div 50 THEN {ExampleRows} ELSE {})

PDInputs ==
    {pD \in UNION {{PorezagDictionary(g, n, t, d) :
                       n \in GridCounts(g), t \in Types, d \in DomainTBs} :
                    g \in GridDists} :
        GridEvaluable(pD)}

\* what one call of makeSKF leaves behind: the file, the printed lines
MakeSKFOutcome(pD) ==
    [pD |-> pD,
     file |-> File(WriteLines(lineListList(pD))),
     printed |-> TypeDiagnostic(pD)]

\* the outcomes of all calls, computed once
MakeSKFOutcomes == {MakeSKFOutcome(pD) : pD \in PDInputs}

MakeSKF(o) ==
    /\ call' = [fn |-> "makeSKF", pD |-> o.pD]
    /\ skfFile' = o.file
    /\ stdout' = o.printed
    /\ ret' = None
    /\ UNCHANGED tableFile
    /\ UNCHANGED atoms

PlotSKF ==
    /\ call.fn # "plotSKF"
    /\ call' = [fn |-> "plotSKF"]
    /\ ret' = ParseSKF(skfFile)
    /\ stdout' = <<>>
    /\ UNCHANGED <<skfFile, tableFile>>
    /\ UNCHANGED atoms

Next ==
    \/ \E o \in MakeSKFOutcomes : MakeSKF(o)
    \/ PlotSKF

Spec == Init /\ [][Next]_vars

----------------------------------------------------------------------------
(* The file makeSKF leaves behind, read back cell by cell *)

\* the number of lines makeSKF writes between line 1 and the integral table
HeaderCount(type) ==
    IF type = "homonuclear" THEN 2 ELSE IF type = "heteronuclear" THEN 1 ELSE 0

\* the cells of the lines between the header and the line "Spline"
WrittenTable ==
    LET f == skfFile.lines
        h == 1 + HeaderCount(call.pD.type)
        sp == CHOOSE i \in 1..Len(f) : f[i] = SplineToken \o <<"\n">>
    IN  [k \in 1..(sp - 1 - h) |-> Split(f[h + k])]

RowValues(cells) == [j \in 1..Len(cells) |-> Float(cells[j]).v]
Sentinel == [j \in 1..20 |-> FP]

\* the values the row for distance r is to hold
ExpectedRow(pD, r) ==
    IF r < ToFP(pD.domainTB[1]) THEN Sentinel
    ELSE LET eD == PorezagSKF(r)
         IN  <<ToFP(eD.Hdd0), ToFP(eD.Hdd1), ToFP(eD.Hdd2), ToFP(eD.Hpd0), ToFP(eD.Hpd1),
               ToFP(eD.Hpp0), ToFP(eD.Hpp1), ToFP(eD.Hsd0), ToFP(eD.Hsp0), ToFP(eD.Hss0),
               ToFP(eD.Sdd0), ToFP(eD.Sdd1), ToFP(eD.Sdd2), ToFP(eD.Spd0), ToFP(eD.Spd1),
               ToFP(eD.Spp0), ToFP(eD.Spp1), ToFP(eD.Ssd0), ToFP(eD.Ssp0), ToFP(eD.Sss0)>>

GridPoint(pD, i) == ToFP(pD.gridDist) * i

\* C1: after makeSKF with a type that is neither "homonuclear" nor
\* "heteronuclear" an error has been printed and the file holds neither a
\* 20-column table row nor a Spline line.
C1_UnknownTypeAborts ==
    (call.fn = "makeSKF" /\ call.pD.type \notin {"homonuclear", "heteronuclear"})
        => /\ stdout # <<>>
           /\ \A i \in 1..Len(skfFile.lines) :
                 /\ Len(Split(skfFile.lines[i])) # 20
                 /\ ~Contains(Split(skfFile.lines[i]), SplineToken)

\* C2: the integral table written by makeSKF has nGridPoints
\* rows of 20 columns, and row i (from 0) is the row for distance gridDist*i.
C2_TableShape ==
    call.fn = "makeSKF"
        => /\ skfFile.exists
           /\ Len(WrittenTable) = call.pD.nGridPoints.v
           /\ \A i \in 1..Len(WrittenTable) :
                 /\ Len(WrittenTable[i]) = 20
                 /\ RowValues(WrittenTable[i]) = ExpectedRow(call.pD, GridPoint(call.pD, i - 1))

C2_Witness ==
    /\ call.fn = "makeSKF"
    /\ call.pD.type = "heteronuclear"
    /\ call.pD.nGridPoints.v = MaxGridPoints
    /\ Len(WrittenTable) = MaxGridPoints

\* C3: a written row is twenty 1.0 exactly when its distance gridDist*i is
\* below domainTB[0]; every other row, the one at domainTB[0] included, holds
\* elementFunction(r) in the order Hdd0 Hdd1 Hdd2 Hpd0 Hpd1 Hpp0 Hpp1 Hsd0 Hsp0
\* Hss0 Sdd0 Sdd1 Sdd2 Spd0 Spd1 Spp0 Spp1 Ssd0 Ssp0 Sss0.
C3_SentinelBelowDomain ==
    call.fn = "makeSKF"
        => \A i \in 1..Len(WrittenTable) :
              LET r == GridPoint(call.pD, i - 1)
                  eD == PorezagSKF(r)
                  row == RowValues(WrittenTable[i])
              IN  /\ (row = Sentinel) <=> (r < ToFP(call.pD.domainTB[1]))
                  /\ r >= ToFP(call.pD.domainTB[1]) =>
                        /\ row[10] = ToFP(eD.Hss0) /\ row[9] = ToFP(eD.Hsp0)
                        /\ row[6] = ToFP(eD.Hpp0) /\ row[7] = ToFP(eD.Hpp1)
                        /\ row[20] = ToFP(eD.Sss0) /\ row[19] = ToFP(eD.Ssp0)
                        /\ row[16] = ToFP(eD.Spp0) /\ row[17] = ToFP(eD.Spp1)
                        /\ row[1] = ToFP(eD.Hdd0) /\ row[2] = ToFP(eD.Hdd1)
                        /\ row[3] = ToFP(eD.Hdd2) /\ row[4] = ToFP(eD.Hpd0)
                        /\ row[5] = ToFP(eD.Hpd1) /\ row[8] = ToFP(eD.Hsd0)
                        /\ row[11] = ToFP(eD.Sdd0) /\ row[12] = ToFP(eD.Sdd1)
                        /\ row[13] = ToFP(eD.Sdd2) /\ row[14] = ToFP(eD.Spd0)
                        /\ row[15] = ToFP(eD.Spd1) /\ row[18] = ToFP(eD.Ssd0)

\* gridDist=0.02, domainTB=[1,7]: rows 0..49 are the sentinel, row 50 is
\* PorezagSKF(1.0), which is not the sentinel
C3_Witness ==
    /\ call.fn = "makeSKF"
    /\ call.pD.type = "homonuclear"
    /\ call.pD.gridDist = PyFloat(FP \div 50)
    /\ call.pD.domainTB = <<PyInt(1), PyInt(7)>>
    /\ call.pD.nGridPoints.v = ExampleRows
    /\ \A i \in 1..50 : RowValues(WrittenTable[i]) = Sentinel
    /\ GridPoint(call.pD, 50) = 1 * FP
    /\ RowValues(WrittenTable[51]) # Sentinel
    /\ RowValues(WrittenTable[51])[10] = ToFP(PorezagSKF(1 * FP).Hss0)

\* C9: plotSKF run on the file makeSKF has just written returns tables of
\* nGridPoints rows, row i the row written for grid point i, ten Hamiltonian
\* and ten overlap columns.
C9_RoundTrip ==
    [][(call.fn = "makeSKF" /\ call'.fn = "plotSKF")
          => /\ ret'.raised = "none"
             /\ Len(ret'.HTable) = call.pD.nGridPoints.v
             /\ Len(ret'.STable) = call.pD.nGridPoints.v
             /\ \A i \in 1..call.pD.nGridPoints.v :
                   /\ Len(ret'.HTable[i]) = 10
                   /\ Len(ret'.STable[i]) = 10
                   /\ ret'.HTable[i] \o ret'.STable[i]
                        = ExpectedRow(call.pD, GridPoint(call.pD, i - 1))]_vars

----------------------------------------------------------------------------
(* The reader on files that were produced elsewhere: example.py reads        *)
(* skf_dftbp/C-C.skf, a file of the DFTB+ distribution, in which cells are   *)
(* separated by blanks and commas and <count>*<value> stands for a run.      *)

\* a cell of such a file: one value, or a run of count values
Plain(v) == [star |-> FALSE, count |-> 1, v |-> v]
Run(n, v) == [star |-> TRUE, count |-> n, v |-> v]

CellText(c) ==
    IF c.star THEN StrInt(c.count) \o <<"*">> \o StrFloat(c.v) ELSE StrFloat(c.v)

LineText(cells, sep) ==
    Join(sep, [i \in 1..Len(cells) |-> CellText(cells[i])]) \o <<"\n">>

Separators == {<<" ">>, <<",", " ">>, <<",">>}

\* rows of 20 columns
RowCells ==
    {<<Run(20, FP)>>,
     <<Run(10, FP), Run(10, 0)>>,
     <<Plain(FP \div 2), Run(19, 0)>>,
     <<Run(9, FP \div 4), Plain(0 - (FP \div 2)), Run(10, 0)>>}

MaxTableRows == 2

RowLists == UNION {[1..n -> RowCells] : n \in 1..MaxTableRows}

\* grid line, the line before the table (mass and 19 zeros), the rows, Spline
ExternalText(gridSep, headSep, rowSep, rows) ==
    <<StrFloat(FP \div 2) \o gridSep \o StrInt(Len(rows)) \o <<"\n">>,
      LineText(<<Plain(1201000000), Run(19, 0)>>, headSep)>>
        \o [i \in 1..Len(rows) |-> LineText(rows[i], rowSep)]
        \o <<SplineToken \o <<"\n">> >>

ExternalFiles ==
    {File(ExternalText(g, h, s, rows)) :
        g \in Separators, h \in Separators, s \in Separators, rows \in RowLists}

\* the file is there before the program runs
ExternalSKF(f) ==
    /\ ~skfFile.exists
    /\ skfFile' = f
    /\ call' = [fn |-> "none"]
    /\ ret' = None
    /\ UNCHANGED <<stdout, tableFile>>
    /\ UNCHANGED atoms

NextReader ==
    \/ \E f \in ExternalFiles : ExternalSKF(f)
    \/ PlotSKF

SpecReader == Init /\ [][NextReader]_vars

\* the cells of a line: the runs of characters other than blanks and commas
Cells(line) == Split([i \in 1..Len(line) |-> IF line[i] = "," THEN " " ELSE line[i]])

\* the columns a cell stands for
CellColumns(cell) ==
    IF Contains(cell, "*")
    THEN LET parts == SplitOn(cell, "*")
         IN  [k \in 1..IntOfFloat(Float(parts[1]).v) |-> Float(parts[2]).v]
    ELSE <<Float(cell).v>>

RECURSIVE ColumnsFrom(_, _)
ColumnsFrom(cells, i) ==
    IF i > Len(cells) THEN <<>> ELSE CellColumns(cells[i]) \o ColumnsFrom(cells, i + 1)

\* the columns of a line: every cell expanded in place
Columns(line) == ColumnsFrom(Cells(line), 1)

\* C10: the reader takes every line of the table for the columns its cells
\* stand for, each <count>*<value> cell expanded in place to count columns of
\* value and the plain cells kept in order, whichever of blank, comma and
\* comma-blank separates the cells; the grid distance is the first cell of
\* line 1.
C10_ExpansionKeepsCells ==
    (call.fn = "plotSKF" /\ skfFile.exists)
        => /\ ret.raised = "none"
           /\ ret.gridDist = Columns(skfFile.lines[1])[1]
           /\ Len(ret.HTable) = Len(skfFile.lines) - 3
           /\ \A i \in 1..(Len(skfFile.lines) - 3) :
                 ret.HTable[i] \o ret.STable[i] = Columns(skfFile.lines[2 + i])

----------------------------------------------------------------------------
(* latte_functions.py: makeLAMMPSPairwiseTable(outputFileName,pD)            *)

\* ang_per_bohr=0.529177, eV_per_hart=27.2114
ang_per_bohr == Q(529177, 1000000)
eV_per_hart == Q(272114, 10000)

(* a float product x*by and a float quotient num/den, kept as their exact    *)
(* operands: the digits of the result do not fit the integers of the model  *)
Times(x, by) == [x |-> x, by |-> by]
Over(num, den) == [num |-> num, den |-> den]

(* np.linspace(start,stop,num), fixed-point:                                 *)
(*     step=(stop-start)/(num-1); y=arange(num)*step+start; y[-1]=stop       *)
linspaceOpen(start, stop, num) ==
    IF num < 0 THEN Raised("ValueError")
    ELSE [raised |-> "none",
          y |-> [i \in 1..num |-> start + (i - 1) * ((stop - start) \div num)]]

linspace(start, stop, num) ==
    IF num < 0 THEN Raised("ValueError")
    ELSE [raised |-> "none",
          y |-> [i \in 1..num |->
                   IF num > 1 /\ i = num THEN stop
                   ELSE IF num = 1 THEN start
                   ELSE start + (i - 1) * ((stop - start) \div (num - 1))]]

\* pD["pairFunction"](r): PorezagPair, or a function that returns (1,1)
PairFunction(pD, r) ==
    CASE pD.pairFunction = "PorezagPair" -> PorezagPair(r)
      [] pD.pairFunction = "UnitPair" -> [energy |-> Q(1, 1), force |-> Q(1, 1)]

\* the six lines before the rows
PairHeader(pD, date) ==
    <<<<"#", " ", "D", "A", "T", "E", ":", " ">> \o date \o <<" ", "U", "N", "I", "T", "S", ":", " ", "m", "e", "t", "a", "l", " ", "C", "O", "N", "T", "R", "I", "B", "U", "T", "O", "R", ":", " ">>
          \o pD.contributor \o <<"\n">>,
      <<"#", " ">> \o pD.pairDescription \o <<"\n">>,
      <<"\n">>,
      pD.pairKeyword \o <<"\n">>,
      <<"N", " ">> \o StrInt(pD.nGridPoints.v) \o <<"\n">>,
      <<"\n">> >>

(* tempValues of the row for rValues[i_r]=r (i_r from 0): the text of the    *)
(* index and the three floats; the line is ' '.join(tempValues)+'\n'         *)
tempValuesFromZero(pD, i_r, r) ==
    <<StrInt(i_r),
      Times(Q(r, FP), ang_per_bohr),
      Times(PairFunction(pD, r).energy, eV_per_hart),
      Times(PairFunction(pD, r).force, Over(eV_per_hart, ang_per_bohr))>>

tempValues(pD, i_r, r) ==
    <<StrInt(i_r + 1),
      Times(Q(r, FP), ang_per_bohr),
      Times(PairFunction(pD, r).energy, eV_per_hart),
      Times(PairFunction(pD, r).force, Over(eV_per_hart, ang_per_bohr))>>

\* lineList, or the exception of np.linspace
lineList(pD, date) ==
    LET rValues == linspace(ToFP(pD.domainPair[1]), ToFP(pD.domainPair[2]),
                            pD.nGridPoints.v)
    IN  IF rValues.raised # "none" THEN rValues
        ELSE [raised |-> "none",
              lines |-> PairHeader(pD, date)
                          \o [i \in 1..Len(rValues.y) |->
                                tempValues(pD, i - 1, rValues.y[i])]]

MakeLAMMPSPairwiseTable(pD, date) ==
    /\ call' = [fn |-> "makeLAMMPSPairwiseTable", pD |-> pD, date |-> date]
    /\ IF lineList(pD, date).raised # "none"
       THEN /\ ret' = lineList(pD, date)
            /\ UNCHANGED tableFile
       ELSE /\ ret' = None
            /\ tableFile' = File(lineList(pD, date).lines)
    /\ UNCHANGED <<skfFile, stdout>>
    /\ UNCHANGED atoms

MaxPairPoints == 5
DomainPairs ==
    {<<PyFloat(1 * FP), PyFloat(41 * (FP \div 10))>>,
     <<PyFloat(1 * FP), PyFloat(255 * (FP \div 100))>>,
     <<PyFloat(255 * (FP \div 100)), PyFloat(41 * (FP \div 10))>>,
     <<PyFloat(225 * (FP \div 1000)), PyFloat(1775 * (FP \div 1000))>>}
PairFunctions == {"PorezagPair", "UnitPair"}
PairKeywords == {<<"P", "O", "R", "E", "Z", "A", "G", "_", "C">>}
PairDescriptions ==
    {<<"p", "a", "i", "r", "w", "i", "s", "e", " ", "r", "e", "p", "u", "l", "s", "i", "v", "e", " ", "p", "o", "t", "e", "n", "t", "i", "a", "l">>}
Contributors == {<<"G", ".", " ", "H", ".", " ", "B", "r", "o", "w", "n">>, <<"a", "n", "o", "n">>}
Dates == {<<"2", "0", "2", "1", "-", "0", "3", "-", "0", "9">>,
          <<"2", "0", "2", "6", "-", "1", "1", "-", "0", "1">>}

PairDictionary(domainPair, n, pairFunction, pairKeyword, pairDescription, contributor) ==
    [nGridPoints |-> PyInt(n),
     pairFunction |-> pairFunction,
     domainPair |-> domainPair,
     pairKeyword |-> pairKeyword,
     pairDescription |-> pairDescription,
     contributor |-> contributor]

\* the grid points are exact and the pair function is exact at each
PairGridExact(pD) ==
    LET start == ToFP(pD.domainPair[1])
        stop == ToFP(pD.domainPair[2])
        n == pD.nGridPoints.v
    IN  /\ n > 1 => (stop - start) % (n - 1) = 0
        /\ \A i \in 1..n : Evaluable(linspace(start, stop, n).y[i], Pair_aa, Pair_b)

\* the dictionaries tried: the counts from 0, and a negative count
PairInputs ==
    {pD \in {PairDictionary(d, n, f, k, t, c) :
                d \in DomainPairs, n \in 0..MaxPairPoints, f \in PairFunctions,
                k \in PairKeywords, t \in PairDescriptions, c \in Contributors} :
        PairGridExact(pD)}
    \cup {PairDictionary(<<PyFloat(1 * FP), PyFloat(41 * (FP \div 10))>>, -1, "PorezagPair",
                          k, t, c) :
             k \in PairKeywords, t \in PairDescriptions, c \in Contributors}

NextPair == \E pD \in PairInputs, date \in Dates : MakeLAMMPSPairwiseTable(pD, date)

SpecPair == Init /\ [][NextPair]_vars

\* the rows of the written table: the lines after the six header lines
PairRows == SubSeq(tableFile.lines, 7, Len(tableFile.lines))

\* s starts with p
StartsWith(s, p) == Len(s) >= Len(p) /\ SubSeq(s, 1, Len(p)) = p

\* C7: the written file is a provenance comment line with date, unit system
\* and contributor, a description comment line, a blank line, the keyword
\* line, "N <nGridPoints>", a blank line, and then nGridPoints rows of 4
\* columns whose first column counts 1,2,...,nGridPoints.
C7_PairTableLayout ==
    (call.fn = "makeLAMMPSPairwiseTable" /\ ret = None)
        => LET f == tableFile.lines
               n == call.pD.nGridPoints.v
           IN  /\ tableFile.exists
               /\ Len(f) = 6 + n
               /\ StartsWith(f[1], <<"#", " ">>)
               /\ Split(f[1]) = Split(<<"#", " ", "D", "A", "T", "E", ":", " ">> \o call.date) \o Split(<<" ", "U", "N", "I", "T", "S", ":", " ", "m", "e", "t", "a", "l", " ", "C", "O", "N", "T", "R", "I", "B", "U", "T", "O", "R", ":", " ">> \o call.pD.contributor)
               /\ f[2] = <<"#", " ">> \o call.pD.pairDescription \o <<"\n">>
               /\ f[3] = <<"\n">>
               /\ f[4] = call.pD.pairKeyword \o <<"\n">>
               /\ Split(f[5]) = <<(<<"N">>), StrInt(n)>>
               /\ f[6] = <<"\n">>
               /\ \A i \in 1..n :
                     /\ Len(f[6 + i]) = 4
                     /\ Float(f[6 + i][1]) = [ok |-> TRUE, v |-> i * FP]

C7_Witness ==
    /\ call.fn = "makeLAMMPSPairwiseTable"
    /\ call.pD.nGridPoints.v = MaxPairPoints
    /\ tableFile.exists
    /\ Len(PairRows) = MaxPairPoints
    /\ PairRows[MaxPairPoints][1] = StrInt(MaxPairPoints)

\* C8: with nGridPoints = n >= 2, row i (from 0) is at
\* r_i = r_min + i*(r_max-r_min)/(n-1), inside [r_min,r_max], first row at
\* r_min and last at r_max, and holds r_i*0.529177,
\* pairFunction(r_i).energy*27.2114, pairFunction(r_i).force*(27.2114/0.529177).
C8_PairRowValues ==
    (call.fn = "makeLAMMPSPairwiseTable" /\ ret = None /\ call.pD.nGridPoints.v >= 2)
        => LET n == call.pD.nGridPoints.v
               r_min == ToFP(call.pD.domainPair[1])
               r_max == ToFP(call.pD.domainPair[2])
           IN  /\ Len(PairRows) = n
               /\ PairRows[1][2].x = Q(r_min, FP)
               /\ PairRows[n][2].x = Q(r_max, FP)
               /\ \A i \in 0..(n - 1) :
                     LET row == PairRows[i + 1]
                         r == row[2].x.n
                     IN  /\ row[2].x.d = FP
                         /\ (r - r_min) * (n - 1) = i * (r_max - r_min)
                         /\ r_min <= r /\ r <= r_max
                         /\ row[2].by = Q(529177, 1000000)
                         /\ row[3].x = PairFunction(call.pD, r).energy
                         /\ row[3].by = Q(272114, 10000)
                         /\ row[4].x = PairFunction(call.pD, r).force
                         /\ row[4].by = [num |-> Q(272114, 10000), den |-> Q(529177, 1000000)]

\* energy 1 and force 1 are written as 1*27.2114 and 1*(27.2114/0.529177);
\* the Porezag pair potential at the middle of [1.0,4.1] is written too
C8_Witness ==
    /\ call.fn = "makeLAMMPSPairwiseTable"
    /\ call.pD.pairFunction = "UnitPair"
    /\ call.pD.nGridPoints.v = 3
    /\ tableFile.exists
    /\ PairRows[2][2] = Times(Q(255 * (FP \div 100), FP), Q(529177, 1000000))
    /\ PairRows[2][3] = Times(Q(1, 1), Q(272114, 10000))
    /\ PairRows[2][4] = Times(Q(1, 1), Over(Q(272114, 10000), Q(529177, 1000000)))

----------------------------------------------------------------------------
(* latte_functions.py: getLATTEProperty(prprty,fileName)                     *)

\* line[0:n]
Slice0(line, n) == SubSeq(line, 1, IF n < Len(line) THEN n ELSE Len(line))

NotFoundMessage == PyStr(<<"S", "p", "e", "c", "i", "f", "i", "e", "d", " ", "p", "r", "o", "p", "e", "r", "t", "y", " ", "n", "o", "t", " ", "f", "o", "u", "n", "d", ".">>)

\* what the first line that starts with prprty yields: float(line.split()[-1])
PropertyOfLine(line) ==
    IF Split(line) = <<>> THEN Raised("IndexError")
    ELSE IF ~Float(Split(line)[Len(Split(line))]).ok THEN Raised("ValueError")
    ELSE PyFloat(Float(Split(line)[Len(Split(line))]).v)

getLATTEProperty(prprty, f) ==
    IF ~f.exists THEN Raised("FileNotFoundError")
    ELSE LET hits == {i \in 1..Len(f.lines) : Slice0(f.lines[i], Len(prprty)) = prprty}
         IN  IF hits = {} THEN NotFoundMessage ELSE PropertyOfLine(f.lines[Min(hits)])

GetLATTEProperty(prprty, f) ==
    /\ call' = [fn |-> "getLATTEProperty", prprty |-> prprty]
    /\ latteFile' = f
    /\ ret' = getLATTEProperty(prprty, f)
    /\ UNCHANGED <<stdout, qDictionary, simulationDictionary, lmpFile>>
    /\ UNCHANGED tables

\* lines of an output file, and the property names asked for
OutputLines ==
    {<<"E", "n", "e", "r", "g", "y", " ", "=", " ", "1", ".", "5", "\n">>,
     <<"E", "n", "e", "r", "g", "y", " ", "=", " ", "-", "2", ".", "2", "5", "\n">>,
     <<"E", "n", "e", "r", "g", "y", "G", "a", "p", " ", "0", ".", "2", "5", "\n">>,
     <<"C", "h", "a", "r", "g", "e", " ", "0", ".", "0", "\n">>,
     <<"S", "t", "r", "e", "s", "s", " ", "t", "e", "n", "s", "o", "r", " ", "(", "G", "P", "a", ")", "\n">>,
     <<" ", "C", "h", "a", "r", "g", "e", " ", "3", ".", "0", "\n">>,
     <<"\n">>,
     <<"G", "a", "p", " ", "=", " ", "0", ".", "5", " ", "e", "V", "\n">>}
PropertyNames == {<<"E", "n", "e", "r", "g", "y">>, <<"C", "h", "a", "r", "g", "e">>, <<"S", "t", "r", "e", "s", "s", " ", "t", "e", "n", "s", "o", "r">>}

MaxOutputLines == 2
OutputFiles ==
    {Absent} \cup {File(ls) : ls \in UNION {[1..n -> OutputLines] : n \in 0..MaxOutputLines}}

NextProperty == \E prprty \in PropertyNames, f \in OutputFiles : GetLATTEProperty(prprty, f)

SpecProperty == Init /\ [][NextProperty]_vars

\* a Python float, as against a str or an exception
IsNumber(x) == "t" \in DOMAIN x /\ x.t = "float"

\* the lines of the file read that start with the name asked for
LinesStarting ==
    {i \in 1..Len(latteFile.lines) : StartsWith(latteFile.lines[i], call.prprty)}

\* C11: getLATTEProperty returns a number exactly when some line starts with
\* the name, and then the number is the last token of the first such line;
\* otherwise it returns the not-found text, which is not a number.
C11_NumberIffLineStarts ==
    (call.fn = "getLATTEProperty" /\ latteFile.exists)
        => /\ IsNumber(ret) <=> LinesStarting # {}
           /\ LinesStarting # {} =>
                 LET tokens == Split(latteFile.lines[Min(LinesStarting)])
                 IN  ret = PyFloat(Float(tokens[Len(tokens)]).v)
           /\ LinesStarting = {} => ret = NotFoundMessage

----------------------------------------------------------------------------
(* makeSKF and makeLAMMPSPairwiseTable statement by statement, with the      *)
(* exceptions a statement can raise.  The position within the function is    *)
(* call.pc; call.prev is the output file as it was when the call began and   *)
(* call.lines the lines the function has built.  An exception is not caught  *)
(* anywhere, so it ends the run: nothing follows pc = "aborted".             *)

\* pD without one of its fields
Without(pD, field) == [k \in DOMAIN pD \ {field} |-> pD[k]]

\* elementFunction is called for some grid point
CallsElementFunction(pD) ==
    \E i \in 1..pD.nGridPoints.v :
        ToFP(pD.gridDist) * (i - 1) >= ToFP(pD.domainTB[1])

\* the keys of pD that makeSKF reads
KeysOfMakeSKF(pD) ==
    {"gridDist", "nGridPoints", "type", "domainTB"}
      \cup (IF pD.type = "homonuclear"
            THEN {"EVec", "SPE", "UVec", "fVec", "mass", "cVec"}
            ELSE IF pD.type = "heteronuclear" THEN {"cVec"} ELSE {})
      \cup (IF CallsElementFunction(pD) THEN {"elementFunction"} ELSE {})

\* lines 335-366: lineListList, or the exception that ends them
BuildSKF(pD) ==
    IF ~({"gridDist", "nGridPoints", "type", "domainTB"} \subseteq DOMAIN pD)
    THEN Raised("KeyError")
    ELSE IF ~(KeysOfMakeSKF(pD) \subseteq DOMAIN pD) THEN Raised("KeyError")
    ELSE IF CallsElementFunction(pD) /\ pD.elementFunction = "RaisingElement"
    THEN Raised("Exception")
    ELSE [raised |-> "none", lines |-> WriteLines(lineListList(pD))]

\* a run may begin when no run is under way
Idle == call.fn = "none" \/ ("pc" \in DOMAIN call /\ call.pc = "done")

\* fileObject=open(outputFileName,'w'): the file is created or emptied
SKFOpen(pD) ==
    /\ Idle
    /\ call' = [fn |-> "makeSKF", pc |-> "opened", pD |-> pD, prev |-> skfFile,
                lines |-> <<>>]
    /\ skfFile' = File(<<>>)
    /\ ret' = None
    /\ UNCHANGED <<stdout, tableFile>>
    /\ UNCHANGED atoms

\* lines 335-366
SKFBuild ==
    /\ call.fn = "makeSKF" /\ call.pc = "opened"
    /\ IF BuildSKF(call.pD).raised # "none"
       THEN /\ call' = [call EXCEPT !.pc = "aborted"]
            /\ ret' = BuildSKF(call.pD)
            /\ stdout' = IF {"gridDist", "nGridPoints", "type"} \subseteq DOMAIN call.pD
                         THEN TypeDiagnostic(call.pD) ELSE stdout
       ELSE /\ call' = [call EXCEPT !.pc = "built", !.lines = BuildSKF(call.pD).lines]
            /\ ret' = None
            /\ stdout' = TypeDiagnostic(call.pD)
    /\ UNCHANGED tables
    /\ UNCHANGED atoms

\* fileObject.write(...) of the next line
SKFWrite ==
    /\ call.fn = "makeSKF" /\ call.pc = "built"
    /\ Len(skfFile.lines) < Len(call.lines)
    /\ skfFile' = File(Append(skfFile.lines, call.lines[Len(skfFile.lines) + 1]))
    /\ UNCHANGED <<call, ret, stdout, tableFile>>
    /\ UNCHANGED atoms

\* fileObject.write(...) raises OSError (disk full)
SKFWriteFails ==
    /\ call.fn = "makeSKF" /\ call.pc = "built"
    /\ Len(skfFile.lines) < Len(call.lines)
    /\ call' = [call EXCEPT !.pc = "aborted"]
    /\ ret' = Raised("OSError")
    /\ UNCHANGED <<skfFile, stdout, tableFile>>
    /\ UNCHANGED atoms

\* fileObject.close() and the return
SKFClose ==
    /\ call.fn = "makeSKF" /\ call.pc = "built"
    /\ Len(skfFile.lines) = Len(call.lines)
    /\ call' = [call EXCEPT !.pc = "done"]
    /\ UNCHANGED <<ret, skfFile, stdout, tableFile>>
    /\ UNCHANGED atoms

\* the keys of pD that makeLAMMPSPairwiseTable reads
KeysOfPairTable(pD) ==
    {"domainPair", "nGridPoints", "contributor", "pairDescription", "pairKeyword"}
      \cup (IF pD.nGridPoints.v >= 1 THEN {"pairFunction"} ELSE {})

\* lines 489-508: lineList, or the exception that ends them
BuildPairTable(pD, date) ==
    IF ~("nGridPoints" \in DOMAIN pD) THEN Raised("KeyError")
    ELSE IF ~(KeysOfPairTable(pD) \subseteq DOMAIN pD) THEN Raised("KeyError")
    ELSE IF pD.nGridPoints.v >= 1 /\ pD.pairFunction = "RaisingPair"
    THEN Raised("Exception")
    ELSE lineList(pD, date)

\* lines 489-508: nothing has touched the file yet
PairBuild(pD, date) ==
    /\ Idle
    /\ IF BuildPairTable(pD, date).raised # "none"
       THEN /\ call' = [fn |-> "makeLAMMPSPairwiseTable", pc |-> "aborted", pD |-> pD,
                        date |-> date, prev |-> tableFile, lines |-> <<>>]
            /\ ret' = BuildPairTable(pD, date)
       ELSE /\ call' = [fn |-> "makeLAMMPSPairwiseTable", pc |-> "built", pD |-> pD,
                        date |-> date, prev |-> tableFile, lines |-> BuildPairTable(pD, date).lines]
            /\ ret' = None
    /\ UNCHANGED <<stdout, skfFile, tableFile>>
    /\ UNCHANGED atoms

\* with open(pD['pairKeyword']+'.table','w') as f: the file is created or emptied
PairOpen ==
    /\ call.fn = "makeLAMMPSPairwiseTable" /\ call.pc = "built"
    /\ call' = [call EXCEPT !.pc = "opened"]
    /\ tableFile' = File(<<>>)
    /\ UNCHANGED <<ret, stdout, skfFile>>
    /\ UNCHANGED atoms

\* f.writelines(lineList), the next line
PairWrite ==
    /\ call.fn = "makeLAMMPSPairwiseTable" /\ call.pc = "opened"
    /\ Len(tableFile.lines) < Len(call.lines)
    /\ tableFile' = File(Append(tableFile.lines, call.lines[Len(tableFile.lines) + 1]))
    /\ UNCHANGED <<call, ret, stdout, skfFile>>
    /\ UNCHANGED atoms

\* f.writelines(lineList) raises OSError (disk full)
PairWriteFails ==
    /\ call.fn = "makeLAMMPSPairwiseTable" /\ call.pc = "opened"
    /\ Len(tableFile.lines) < Len(call.lines)
    /\ call' = [call EXCEPT !.pc = "aborted"]
    /\ ret' = Raised("OSError")
    /\ UNCHANGED <<stdout, skfFile, tableFile>>
    /\ UNCHANGED atoms

\* the end of the with block and the return
PairClose ==
    /\ call.fn = "makeLAMMPSPairwiseTable" /\ call.pc = "opened"
    /\ Len(tableFile.lines) = Len(call.lines)
    /\ call' = [call EXCEPT !.pc = "done"]
    /\ UNCHANGED <<ret, stdout, skfFile, tableFile>>
    /\ UNCHANGED atoms

\* bundles that generate, a bundle with a field missing, a bundle whose
\* element function raises
StepSKFInputs ==
    LET good == {PorezagDictionary(4 * FP, n, t, <<PyInt(4), PyInt(7)>>) :
                    n \in {1, 2}, t \in {"homonuclear", "heteronuclear"}}
    IN  good
          \cup {Without(PorezagDictionary(4 * FP, 2, "homonuclear", <<PyInt(4), PyInt(7)>>),
                        "cVec")}
          \cup {[PorezagDictionary(4 * FP, 2, "heteronuclear", <<PyInt(4), PyInt(7)>>)
                   EXCEPT !.elementFunction = "RaisingElement"]}

StepPairInputs ==
    LET d == <<PyFloat(1 * FP), PyFloat(41 * (FP \div 10))>>
        k == <<"P", "O", "R", "E", "Z", "A", "G", "_", "C">>
        t == <<"p", "a", "i", "r">>
        c == <<"a", "n", "o", "n">>
    IN  {PairDictionary(d, n, "PorezagPair", k, t, c) : n \in {0, 2}}
          \cup {Without(PairDictionary(d, 2, "PorezagPair", k, t, c), "contributor")}
          \cup {PairDictionary(d, 2, "RaisingPair", k, t, c)}
          \cup {PairDictionary(d, -1, "PorezagPair", k, t, c)}

NextSteps ==
    \/ \E pD \in StepSKFInputs : SKFOpen(pD)
    \/ SKFBuild
    \/ SKFWrite
    \/ SKFWriteFails
    \/ SKFClose
    \/ \E pD \in StepPairInputs : PairBuild(pD, <<"2", "0", "2", "1", "-", "0", "3", "-", "0", "9">>)
    \/ PairOpen
    \/ PairWrite
    \/ PairWriteFails
    \/ PairClose

SpecSteps == Init /\ [][NextSteps]_vars

\* the output file of the call under way
OutputFile == IF call.fn = "makeSKF" THEN skfFile ELSE tableFile

\* what the call under way writes when nothing fails
CompleteTable ==
    IF call.fn = "makeSKF" THEN BuildSKF(call.pD)
    ELSE BuildPairTable(call.pD, call.date)

(* C12: at every point of makeSKF and of makeLAMMPSPairwiseTable, whether it *)
(* goes on, has failed or has returned, the output file has the contents it  *)
(* had before the call (or does not exist) or holds the complete table.      *)
C12_NoPartialTable ==
    call.fn \in {"makeSKF", "makeLAMMPSPairwiseTable"}
        => \/ OutputFile = call.prev
           \/ /\ CompleteTable.raised = "none"
              /\ OutputFile = File(CompleteTable.lines)

----------------------------------------------------------------------------
(* The reader on files that are not well formed: the line "Spline" missing,  *)
(* no line of the width of the table, rows of different widths; in the       *)
(* simple format and in the extended format (line 1 holds '@').              *)

\* a line of width columns: one plain cell and runs of zeros
WideLine(width, sep) ==
    IF width <= 20 THEN LineText(<<Plain(FP \div 2), Run(width - 1, 0)>>, sep)
    ELSE LineText(<<Plain(FP \div 2), Run(19, 0), Run(width - 20, 0)>>, sep)

MaxMalformedRows == 3

\* the widths of the rows of a table: each the width of the format or one less
RowWidths(len) == UNION {[1..n -> {len - 1, len}] : n \in 0..MaxMalformedRows}

\* ['@' line,] grid line, the line before the table, the rows [, Spline]
MalformedText(extended, headWidth, widths, hasSpline, sep) ==
    (IF extended THEN << <<"@", "\n">> >> ELSE <<>>)
      \o <<StrFloat(FP \div 2) \o sep \o StrInt(Len(widths)) \o <<"\n">>,
           WideLine(headWidth, sep)>>
      \o [i \in 1..Len(widths) |-> WideLine(widths[i], sep)]
      \o (IF hasSpline THEN << SplineToken \o <<"\n">> >> ELSE <<>>)

\* the width of a line: the columns its cells stand for
CellWidth(cell) ==
    IF Contains(cell, "*") THEN IntOfFloat(Float(SplitOn(cell, "*")[1]).v) ELSE 1
RECURSIVE WidthFrom(_, _)
WidthFrom(cells, i) ==
    IF i > Len(cells) THEN 0 ELSE CellWidth(cells[i]) + WidthFrom(cells, i + 1)
Width(line) == WidthFrom(Cells(line), 1)

IsExtended(f) == Contains(f.lines[1], "@")
ExpectedWidth(f) == IF IsExtended(f) THEN 40 ELSE 20

\* the three kinds of malformed file
NoSplineLine(f) == \A i \in 1..Len(f.lines) : ~Contains(Cells(f.lines[i]), SplineToken)
NoTableWidthLine(f) == \A i \in 1..Len(f.lines) : Width(f.lines[i]) # ExpectedWidth(f)
\* the rows: the lines after the line before the table, up to "Spline"
RowLines(f) ==
    {i \in ((IF IsExtended(f) THEN 3 ELSE 2) + 1)..Len(f.lines) :
        ~Contains(Cells(f.lines[i]), SplineToken)}
RaggedRows(f) ==
    \E i, j \in RowLines(f) : Width(f.lines[i]) # Width(f.lines[j])
Malformed(f) == NoSplineLine(f) \/ NoTableWidthLine(f) \/ RaggedRows(f)

MalformedFiles ==
    {f \in UNION {{File(MalformedText(x, h, w, sp, <<" ">>)) :
                      h \in {integralTableLineLength(x) - 1, 20},
                      w \in RowWidths(integralTableLineLength(x)),
                      sp \in BOOLEAN} :
                   x \in BOOLEAN} :
        Malformed(f)}

NextMalformed ==
    \/ \E f \in MalformedFiles : ExternalSKF(f)
    \/ PlotSKF

SpecMalformed == Init /\ [][NextMalformed]_vars

(* C13: on a file with no line "Spline", on a file with no line of the       *)
(* width of the table (20 columns, 40 in the extended format) and on a file  *)
(* whose rows differ in width, the reader ends with an error: it returns no  *)
(* table and plots nothing.                                                  *)
C13_MalformedFails ==
    (call.fn = "plotSKF" /\ skfFile.exists /\ Malformed(skfFile))
        => ret.raised # "none"

----------------------------------------------------------------------------
(* The layout of the file makeSKF leaves behind, line by line *)

\* the tokens of a line that holds the given values
Tokens(values) == [j \in 1..Len(values) |-> Str(values[j])]

\* the lines that consist solely of the token "Spline"
SplineLineNumbers ==
    {i \in 1..Len(skfFile.lines) : skfFile.lines[i] = SplineToken \o <<"\n">>}

(* C14: the file written by makeSKF is, in order: the grid line (gridDist,   *)
(* nGridPoints); for homonuclear the line of EVec, SPE, UVec, fVec and the   *)
(* line of mass, cVec, cutoff and ten zeros, for heteronuclear the one line  *)
(* of 12345, cVec, cutoff and ten zeros; nGridPoints rows of 20 columns; a   *)
(* line that is just "Spline"; and the three rows 1 cutoff / 0 0 -1 /        *)
(* domainTB[0] domainTB[1] 0 0 0 0 0 0.  "Spline" is on one line only, the   *)
(* line after the last row of the table.                                     *)
C14_FileLayout ==
    call.fn = "makeSKF"
        => LET f == skfFile.lines
               pD == call.pD
               n == pD.nGridPoints.v
               sp == Len(f) - 3
               zeros(k) == [j \in 1..k |-> PyInt(0)]
           IN  /\ Len(f) >= 5
               /\ Split(f[1]) = Tokens(<<pD.gridDist, pD.nGridPoints>>)
               /\ pD.type = "homonuclear" =>
                     /\ sp = 3 + n + 1
                     /\ Split(f[2]) = Tokens(pD.EVec \o <<pD.SPE>> \o pD.UVec \o pD.fVec)
                     /\ Split(f[3]) = Tokens(<<pD.mass>> \o pD.cVec \o <<pD.domainTB[2]>>
                                               \o zeros(10))
               /\ pD.type = "heteronuclear" =>
                     /\ sp = 2 + n + 1
                     /\ Split(f[2]) = Tokens(<<PyInt(12345)>> \o pD.cVec
                                               \o <<pD.domainTB[2]>> \o zeros(10))
               /\ sp - n >= 2
               /\ \A i \in (sp - n)..(sp - 1) : Len(Split(f[i])) = 20
               /\ SplineLineNumbers = {sp}
               /\ \A i \in 1..Len(f) : Contains(Split(f[i]), SplineToken) => i = sp
               /\ Split(f[sp + 1]) = Tokens(<<PyInt(1), pD.domainTB[2]>>)
               /\ Split(f[sp + 2]) = Tokens(<<PyInt(0), PyInt(0), PyInt(-1)>>)
               /\ Split(f[sp + 3]) = Tokens(<<pD.domainTB[1], pD.domainTB[2]>> \o zeros(6))

C14_Witness ==
    /\ call.fn = "makeSKF"
    /\ call.pD.type = "homonuclear"
    /\ call.pD.nGridPoints.v = MaxGridPoints
    /\ Len(skfFile.lines) = 3 + MaxGridPoints + 4
    /\ SplineLineNumbers = {3 + MaxGridPoints + 1}

----------------------------------------------------------------------------
(* latte_functions.py: returnToBox(qDictionary)                              *)
(* qDictionary is [boxVectors, qs]: the periodicity vectors and one array of *)
(* coordinates per atom type, an array being the sequence of its rows.       *)
(* Lengths are fixed-point numbers with FP for 1.0.                          *)

\* tol=1e-3
tol == FP \div 1000

\* boxSizeVector=np.zeros(3); boxSizeVector[iVector]=vector[iVector]
boxSizeVector(qD) ==
    [i \in 1..3 |-> IF i <= Len(qD.boxVectors) THEN qD.boxVectors[i][i] ELSE 0]

\* the masks, as the numbers 0 and 1 they are multiplied as
tooSmallMaskNoTol(x) == IF x < 0 THEN 1 ELSE 0

tooSmallMask(x) == IF x < 0 - tol THEN 1 ELSE 0

tooLargeMask(x, L) == IF x >= L THEN 1 ELSE 0

\* curCoordinates[:,iDimension] after the assignment, for every column
InBounds(curCoordinates, L) ==
    [r \in 1..Len(curCoordinates) |->
        [d \in 1..Len(curCoordinates[r]) |->
            curCoordinates[r][d]
              + L[d] * (tooSmallMask(curCoordinates[r][d])
                          - tooLargeMask(curCoordinates[r][d], L[d]))]]

\* qDictionary as returnToBox leaves it
returnToBox(qD) ==
    [qD EXCEPT !.qs = [iAtom \in 1..Len(qD.qs) |->
                          InBounds(qD.qs[iAtom], boxSizeVector(qD))]]

MaxApplications == 2

\* the caller makes a configuration
NewConfiguration(qD) ==
    /\ qDictionary = None
    /\ qDictionary' = qD
    /\ call' = [fn |-> "none"]
    /\ ret' = None
    /\ UNCHANGED <<stdout, latteFile, simulationDictionary, lmpFile>>
    /\ UNCHANGED tables

\* returnToBox(qDictionary): the dictionary itself is altered.  call keeps
\* the dictionary as it was before this call and before the first call.
ReturnToBox ==
    /\ qDictionary # None
    /\ IF call.fn = "returnToBox"
       THEN /\ call.nth < MaxApplications
            /\ call' = [call EXCEPT !.nth = call.nth + 1, !.before = qDictionary]
       ELSE call' = [fn |-> "returnToBox", nth |-> 1, before |-> qDictionary,
                     start |-> qDictionary]
    /\ qDictionary' = returnToBox(qDictionary)
    /\ ret' = None
    /\ UNCHANGED <<stdout, latteFile, simulationDictionary, lmpFile>>
    /\ UNCHANGED tables

\* box lengths, and the coordinates tried along an edge of length L
BoxLengths == <<2 * FP, 3 * FP, 4 * FP>>
EdgeCoordinates(L) ==
    {0 - 2 * L, 0 - L - 2 * tol, 0 - L, 0 - 2 * tol, 0 - tol - 1, 0 - tol, 0 - 1,
     0, L \div 2, L - 1, L, L + 1, 2 * L - 1, 2 * L, 3 * L}

\* an orthorhombic box, a box with skewed vectors, a box of two vectors
BoxVectorSets ==
    {<<<<BoxLengths[1], 0, 0>>, <<0, BoxLengths[2], 0>>, <<0, 0, BoxLengths[3]>>>>,
     <<<<BoxLengths[1], FP, 0>>, <<0, BoxLengths[2], 0>>, <<FP, 0, BoxLengths[3]>>>>,
     <<<<BoxLengths[1], 0, 0>>, <<0, BoxLengths[2], 0>>>>}

\* a row inside the box but for coordinate d, which is c
RowWith(d, c) == [k \in 1..3 |-> IF k = d THEN c ELSE BoxLengths[k] \div 2]

\* one atom type with one atom, and two atom types with three atoms
QsWith(d) ==
    UNION {{<< <<RowWith(d, c)>> >>,
            << <<RowWith(d, c), RowWith(1, 0 - FP)>>, <<RowWith(3, 5 * FP)>> >>} :
              c \in EdgeCoordinates(BoxLengths[d])}

QsInputs == UNION {QsWith(d) : d \in 1..3}

QDictionaries == {[boxVectors |-> b, qs |-> q] : b \in BoxVectorSets, q \in QsInputs}

NextBox ==
    \/ \E qD \in QDictionaries : NewConfiguration(qD)
    \/ ReturnToBox

SpecBox == Init /\ [][NextBox]_vars

\* the coordinates of a dictionary: array, row, column
Places(qD) ==
    {<<a, r, d>> \in (1..Len(qD.qs)) \X (1..3) \X (1..3) : r <= Len(qD.qs[a])}
At(qD, p) == qD.qs[p[1]][p[2]][p[3]]
EdgeOf(qD, p) == boxSizeVector(qD)[p[3]]

(* C15: returnToBox adds the box length L of its dimension to a coordinate   *)
(* below -tol, subtracts L from a coordinate that is L or more and leaves a  *)
(* coordinate in [-tol, L) as it is; no coordinate moves by more than one    *)
(* box length in a call; and a second call changes no coordinate that was    *)
(* within one box length of the box, in [-L, 2L), before the first.          *)
C15_OneBoxLength ==
    call.fn = "returnToBox"
        => /\ qDictionary.boxVectors = call.before.boxVectors
           /\ Places(qDictionary) = Places(call.before)
           /\ \A p \in Places(call.before) :
                 LET x == At(call.before, p)
                     now == At(qDictionary, p)
                     L == EdgeOf(call.before, p)
                 IN  /\ x < 0 - tol => now = x + L
                     /\ x >= L => now = x - L
                     /\ (0 - tol <= x /\ x < L) => now = x
                     /\ Abs(now - x) <= L
                     /\ (call.nth = 2 /\ 0 - L <= At(call.start, p)
                           /\ At(call.start, p) < 2 * L) => now = x

\* a second call after a first that moved a coordinate from below and one
\* from above into the box
C15_Witness ==
    /\ call.fn = "returnToBox"
    /\ call.nth = 2
    /\ \E p \in Places(call.start) :
          /\ At(call.start, p) = 0 - EdgeOf(call.start, p)
          /\ At(call.before, p) = 0
          /\ At(qDictionary, p) = 0
    /\ \E p \in Places(call.start) :
          /\ At(call.start, p) >= EdgeOf(call.start, p)
          /\ At(call.before, p) = At(call.start, p) - EdgeOf(call.start, p)
          /\ EdgeOf(call.start, p) > 0

----------------------------------------------------------------------------
(* latte_functions.py: translateCoordinates(simulationDictionary,            *)
(*                                      displacementVector,groupControl)     *)
(* A simulation dictionary is [groupDictionaries, boxVectors, nAtoms,        *)
(* nAtomTypes, massList]; a group is [qArray, massList], qArray being the    *)
(* sequence of its rows: four columns of whole numbers, then the             *)
(* coordinates as fixed-point numbers.                                       *)

\* if (not groupControl): groupControl=[1]*len(groupDictionaries)
EffectiveGroupControl(sD, groupControl) ==
    IF groupControl = None \/ groupControl.v = <<>>
    THEN [g \in 1..Len(sD.groupDictionaries) |-> 1]
    ELSE groupControl.v

\* qprime for one row: columns 4:8 plus the displacement, the rest as it is
Displaced(row, displacementVector) ==
    [k \in 1..Len(row) |-> IF k > 4 THEN row[k] + displacementVector[k - 4] ELSE row[k]]

\* what stops the loop at group groupNumber, if anything
GroupError(sD, gC, groupNumber) ==
    IF groupNumber > Len(gC) THEN "IndexError"
    ELSE IF gC[groupNumber] # 0 /\ Len(sD.groupDictionaries[groupNumber].qArray) = 0
    THEN "ValueError"
    ELSE "none"

\* the dictionary returned, or the first exception of the loop
translateCoordinates(sD, displacementVector, groupControl) ==
    LET gC == EffectiveGroupControl(sD, groupControl)
        groups == sD.groupDictionaries
        failing == {g \in 1..Len(groups) : GroupError(sD, gC, g) # "none"}
    IN  IF failing # {} THEN Raised(GroupError(sD, gC, Min(failing)))
        ELSE [sD EXCEPT !.groupDictionaries =
                 [g \in 1..Len(groups) |->
                    IF gC[g] # 0
                    THEN [groups[g] EXCEPT !.qArray =
                             [r \in 1..Len(groups[g].qArray) |->
                                Displaced(groups[g].qArray[r], displacementVector)]]
                    ELSE groups[g]]]

\* the caller makes a simulation dictionary
NewSimulation(sD) ==
    /\ simulationDictionary = None
    /\ simulationDictionary' = sD
    /\ call' = [fn |-> "none"]
    /\ ret' = None
    /\ UNCHANGED <<stdout, latteFile, qDictionary, lmpFile>>
    /\ UNCHANGED tables

\* the dictionary passed in is copied with copy.deepcopy and not written to
TranslateCoordinates(displacementVector, groupControl) ==
    /\ simulationDictionary # None
    /\ call' = [fn |-> "translateCoordinates", input |-> simulationDictionary,
                displacementVector |-> displacementVector,
                groupControl |-> groupControl]
    /\ ret' = translateCoordinates(simulationDictionary, displacementVector, groupControl)
    /\ UNCHANGED <<stdout, latteFile, qDictionary, simulationDictionary, lmpFile>>
    /\ UNCHANGED tables

\* rows of three atoms
AtomRows ==
    <<<<1, 1, 1, 0, 0, 0, 0>>,
      <<2, 1, 1, 0, 1 * FP, FP \div 2, 0 - (FP \div 4)>>,
      <<3, 2, 2, 0, 123456, 2 * FP, 0>>>>

\* groups of no, one and two atoms
Groups ==
    {[qArray |-> <<>>, massList |-> <<PyFloat(1201100000)>>],
     [qArray |-> <<AtomRows[1]>>, massList |-> <<PyFloat(1201100000)>>],
     [qArray |-> <<AtomRows[1], AtomRows[2]>>, massList |-> <<PyFloat(1201100000)>>],
     [qArray |-> <<AtomRows[3]>>, massList |-> <<PyFloat(100800000)>>]}

MaxGroups == 2

GroupLists == UNION {[1..n -> Groups] : n \in 1..MaxGroups}

RECURSIVE getNumberOfAtomsFrom(_, _)
getNumberOfAtomsFrom(groups, g) ==
    IF g > Len(groups) THEN 0
    ELSE Len(groups[g].qArray) + getNumberOfAtomsFrom(groups, g + 1)
getNumberOfAtoms(groups) == getNumberOfAtomsFrom(groups, 1)

RECURSIVE massListFullFrom(_, _)
massListFullFrom(groups, g) ==
    IF g > Len(groups) THEN <<>>
    ELSE groups[g].massList \o massListFullFrom(groups, g + 1)

\* a dictionary with the metadata refreshMetaData gives it
SimulationDictionaryOf(groups, boxVectors) ==
    [groupDictionaries |-> groups,
     boxVectors |-> boxVectors,
     nAtoms |-> getNumberOfAtoms(groups),
     nAtomTypes |-> Len(massListFullFrom(groups, 1)),
     massList |-> massListFullFrom(groups, 1)]

\* a box of three vectors and a box of two
SimulationBoxes ==
    {<<<<0, 10 * FP, 0>>, <<0, 0, 12 * FP>>, <<0 - FP, 0, 15 * FP>>>>,
     <<<<10 * FP, 0, 0>>, <<0, 12 * FP, 0>>>>}

SimulationDictionaries ==
    {SimulationDictionaryOf(groups, b) : groups \in GroupLists, b \in SimulationBoxes}

DisplacementVectors ==
    {<<0, 0, 0>>, <<1 * FP, 0 - (FP \div 2), 0>>, <<0, 0, 5 * (FP \div 2)>>}

\* omitted, empty, one entry, two entries
PyList(v) == [t |-> "list", v |-> v]
GroupControls ==
    {None} \cup {PyList(v) : v \in {<<>>, <<1>>, <<0>>, <<1, 0>>, <<0, 1>>, <<1, 1>>}}

(* latte_functions.py: simulationDictionaryToLAMMPSData(fileName,            *)
(*                                     groupDictionary,twoDimensional=False) *)

\* f"{element:.5f}" of a fixed-point number: five decimals, rounded to the
\* nearest, a tie to the even digit
Fixed5(v) ==
    LET a == Abs(v)
        cut == FP \div 100000
        q == a \div cut
        rem == a % cut
        n == IF 2 * rem > cut \/ (2 * rem = cut /\ q % 2 = 1) THEN q + 1 ELSE q
    IN  (IF v < 0 THEN <<"-">> ELSE <<>>)
          \o Digits(n \div 100000) \o <<".">> \o PadDigits(n % 100000, 5)

\* np.min(boxVector), np.max(boxVector)
VectorMin(vector) == Min({vector[k] : k \in 1..Len(vector)})
VectorMax(vector) == Max({vector[k] : k \in 1..Len(vector)})

dimLabels == <<"x", "y", "z">>

\* ' '.join(minMax)+' '+' '.join(extentLabels)
BoxLine(sD, i) ==
    StrFloat(VectorMin(sD.boxVectors[i])) \o <<" ">> \o StrFloat(VectorMax(sD.boxVectors[i]))
      \o <<" ", dimLabels[i], "l", "o", " ", dimLabels[i], "h", "i", "\n">>

\* str(atomTypeNumber+1)+' '+str(mass)+'\n'
MassLine(atomTypeNumber, mass) == StrInt(atomTypeNumber + 1) \o <<" ">> \o Str(mass) \o <<"\n">>

\* ' '.join(dataString)+'\n' for one row of atomicData
AtomLine(row) ==
    Join(<<" ">>, [k \in 1..Len(row) |-> IF k <= 4 THEN StrInt(row[k]) ELSE Fixed5(row[k])])
      \o <<"\n">>

RECURSIVE AtomLinesFrom(_, _)
AtomLinesFrom(groups, g) ==
    IF g > Len(groups) THEN <<>>
    ELSE [r \in 1..Len(groups[g].qArray) |-> AtomLine(groups[g].qArray[r])]
           \o AtomLinesFrom(groups, g + 1)

\* the lines written for simulationDictionary, or the IndexError of a box of
\* fewer than N_dim vectors
LAMMPSLines(sD) ==
    IF Len(sD.boxVectors) < 3 THEN Raised("IndexError")
    ELSE [raised |-> "none",
          lines |->
            <<<<"L", "A", "M", "M", "P", "S", " ", "D", "e", "s", "c", "r", "i", "p", "t", "i", "o", "n", "\n">>, <<" ", "\n">>,
              StrInt(sD.nAtoms) \o <<" ", "a", "t", "o", "m", "s", "\n">>, <<" ", "\n">>,
              StrInt(sD.nAtomTypes) \o <<" ", "a", "t", "o", "m", " ", "t", "y", "p", "e", "s", "\n">>, <<" ", "\n">> >>
              \o [i \in 1..3 |-> BoxLine(sD, i)]
              \o << <<"\n">>, <<"M", "a", "s", "s", "e", "s", "\n">>, <<"\n">> >>
              \o [n \in 1..Len(sD.massList) |-> MassLine(n - 1, sD.massList[n])]
              \o << <<"\n">>, <<"A", "t", "o", "m", "s", "\n">>, <<"\n">> >>
              \o AtomLinesFrom(sD.groupDictionaries, 1)]

fileName == <<"g", "r", "a", "p", "h", "e", "n", "e", ".", "l", "m", "p">>

\* what the two print calls show
LAMMPSPrinted(sD) ==
    <<<<"W", "r", "o", "t", "e", " ", ".", "l", "m", "p", " ", "f", "i", "l", "e", ":", " ">> \o fileName,
      <<"N", "u", "m", "b", "e", "r", " ", "o", "f", " ", "a", "t", "o", "m", "s", ":", " ">> \o StrInt(sD.nAtoms)>>

(* The local simulationDictionary after line 173: bound only when            *)
(* twoDimensional is true, and unbound otherwise; False is the number 0.     *)
LocalSimulationDictionary(groupDictionary, twoDimensional) ==
    IF twoDimensional = 0 THEN Raised("UnboundLocalError")
    ELSE LET translated == translateCoordinates(groupDictionary,
                                                <<0, 0, twoDimensional>>, None)
         IN  IF "raised" \in DOMAIN translated THEN translated
             ELSE [translated EXCEPT !.boxVectors =
                      groupDictionary.boxVectors \o << <<0, 0, twoDimensional * 2>> >>]

\* the file, the exception and the printed lines of one call
simulationDictionaryToLAMMPSData(groupDictionary, twoDimensional) ==
    LET sD == LocalSimulationDictionary(groupDictionary, twoDimensional)
    IN  IF "raised" \in DOMAIN sD
        THEN [ret |-> sD, file |-> File(<<>>), printed |-> <<>>]
        ELSE IF LAMMPSLines(sD).raised # "none"
        THEN [ret |-> LAMMPSLines(sD), file |-> File(<<>>), printed |-> <<>>]
        ELSE [ret |-> None, file |-> File(LAMMPSLines(sD).lines),
              printed |-> LAMMPSPrinted(sD)]

\* fileObject=open(fileName,'w+') empties the file before anything else
SimulationDictionaryToLAMMPSData(twoDimensional) ==
    /\ simulationDictionary # None
    /\ call' = [fn |-> "simulationDictionaryToLAMMPSData",
                groupDictionary |-> simulationDictionary,
                twoDimensional |-> twoDimensional]
    /\ \E o \in {simulationDictionaryToLAMMPSData(simulationDictionary, twoDimensional)} :
          /\ ret' = o.ret
          /\ lmpFile' = o.file
          /\ stdout' = o.printed
    /\ UNCHANGED <<latteFile, qDictionary, simulationDictionary>>
    /\ UNCHANGED tables

\* twoDimensional: the default False, and two heights
TwoDimensionals == {0, 5 * FP, 5 * (FP \div 2)}


NextSimulation ==
    \/ \E sD \in SimulationDictionaries : NewSimulation(sD)
    \/ \E dV \in DisplacementVectors, gC \in GroupControls : TranslateCoordinates(dV, gC)
    \/ \E tD \in TwoDimensionals : SimulationDictionaryToLAMMPSData(tD)

SpecSimulation == Init /\ [][NextSimulation]_vars

\* group g is selected by the call
Selected(g) == call.groupControl = None \/ call.groupControl.v[g] # 0

(* C16: translateCoordinates, with groupControl omitted or holding one entry *)
(* per group, returns a dictionary and leaves the one passed in as it was;   *)
(* in the result every row of a selected group (of every group when          *)
(* groupControl is omitted) has its coordinates shifted by exactly           *)
(* displacementVector and its other columns as before, and the groups not    *)
(* selected, the box vectors and the other fields equal the input's.         *)
C16_TranslatesSelected ==
    (/\ call.fn = "translateCoordinates"
     /\ call.groupControl # None =>
           Len(call.groupControl.v) = Len(call.input.groupDictionaries))
        => /\ simulationDictionary = call.input
           /\ "groupDictionaries" \in DOMAIN ret
           /\ DOMAIN ret = DOMAIN call.input
           /\ \A k \in DOMAIN ret \ {"groupDictionaries"} : ret[k] = call.input[k]
           /\ Len(ret.groupDictionaries) = Len(call.input.groupDictionaries)
           /\ \A g \in 1..Len(call.input.groupDictionaries) :
                 LET was == call.input.groupDictionaries[g]
                     now == ret.groupDictionaries[g]
                 IN  /\ now.massList = was.massList
                     /\ Len(now.qArray) = Len(was.qArray)
                     /\ ~Selected(g) => now.qArray = was.qArray
                     /\ Selected(g) =>
                           \A r \in 1..Len(was.qArray) :
                              /\ SubSeq(now.qArray[r], 1, 4) = SubSeq(was.qArray[r], 1, 4)
                              /\ \A d \in 1..3 :
                                    now.qArray[r][4 + d]
                                      = was.qArray[r][4 + d] + call.displacementVector[d]

----------------------------------------------------------------------------
(* The file simulationDictionaryToLAMMPSData leaves behind *)

\* the number of the line that is exactly text, 0 when there is none
LineNumber(text) ==
    IF \E i \in 1..Len(lmpFile.lines) : lmpFile.lines[i] = text
    THEN Min({i \in 1..Len(lmpFile.lines) : lmpFile.lines[i] = text})
    ELSE 0

\* the rows of all groups, in group order
RECURSIVE RowsFrom(_, _)
RowsFrom(groups, g) ==
    IF g > Len(groups) THEN <<>> ELSE groups[g].qArray \o RowsFrom(groups, g + 1)

(* the file holds "<nAtoms> atoms", under "Masses" one line per entry of     *)
(* massList numbered from 1, and under "Atoms" one line per row of the       *)
(* groups in group order, each beginning with the row's whole numbers        *)
HoldsSimulation(sD) ==
    LET f == lmpFile.lines
        m == LineNumber(<<"M", "a", "s", "s", "e", "s", "\n">>)
        a == LineNumber(<<"A", "t", "o", "m", "s", "\n">>)
        rows == RowsFrom(sD.groupDictionaries, 1)
    IN  /\ lmpFile.exists
        /\ \E i \in 1..Len(f) : f[i] = StrInt(sD.nAtoms) \o <<" ", "a", "t", "o", "m", "s", "\n">>
        /\ m > 0 /\ a = m + 2 + Len(sD.massList) + 1
        /\ \A n \in 1..Len(sD.massList) :
              Split(f[m + 1 + n]) = <<StrInt(n), Str(sD.massList[n])>>
        /\ Len(f) = a + 1 + Len(rows)
        /\ \A r \in 1..Len(rows) :
              /\ Len(Split(f[a + 1 + r])) = Len(rows[r])
              /\ SubSeq(Split(f[a + 1 + r]), 1, 4) = [k \in 1..4 |-> StrInt(rows[r][k])]

(* C17: simulationDictionaryToLAMMPSData called with twoDimensional left at  *)
(* its default ends without an error, and the file then holds the line       *)
(* "<nAtoms> atoms", a Masses section with one line per entry of massList    *)
(* numbered from 1, and an Atoms section with one line per row of qArray in  *)
(* group order.                                                              *)
C17_DefaultCallWrites ==
    (call.fn = "simulationDictionaryToLAMMPSData" /\ call.twoDimensional = 0)
        => /\ ret = None
           /\ HoldsSimulation(call.groupDictionary)

=============================================================================
